---- MODULE Spec2Model ----
(***************************************************************************)
(* Model of the hash-chain ledger of joegr/span                            *)
(* (src/models/hash_service.py, class HashService) and of its proof-of-    *)
(* work engine (src/app/blockchain/proof.py, class ProofGenerator) and its *)
(* in-memory cache (src/app/utils/cache.py, class Cache).                  *)
(*                                                                         *)
(* Strings are sequences of atoms.  An atom is a tuple: <<c>> is the       *)
(* character with code c, <<c, n>> is a run of n characters c (written     *)
(* only for the sentinel "0" * 64, which is never taken apart), and        *)
(* <<ShaTag, s>> stands for the 64 hexadecimal characters of               *)
(* sha256(s).hexdigest().  SHA-256 is idealised as collision free: two     *)
(* digests are equal exactly when their preimages are, and no digest is    *)
(* the sentinel.                                                           *)
(***************************************************************************)
EXTENDS Integers, Sequences, FiniteSets, TLC

VARIABLES
    blocks,   \* HashService.blocks: the list of Block
    clock,    \* the wall clock datetime.utcnow() reads, in ticks
    result,   \* the last completed call: [op, arg, ret]
    tampered, \* the fields of stored blocks changed from outside, in order
    pc,       \* per request thread: the line of HashService it stands at
    frame,    \* per request thread: the local variables of its call
    merkle,   \* the running calculate_merkle_root call: its locals
    engine,   \* the ProofGenerator object: [difficulty, target]
    oracle,   \* the SHA-256 digests computed so far, by input bytes
    search,   \* the running generate_proof / find_next_proof call
    held,     \* the Proof objects the caller holds, in order of return
    lru,      \* the Cache object: [max_size, ttl, cache, timestamps]
    touched   \* the keys set or successfully got, least recent first

vars == <<blocks, clock, result, tampered, pc, frame,
          merkle, engine, oracle, search, held, lru, touched>>

ledger_vars == <<blocks, tampered, pc, frame>>
proof_vars == <<engine, oracle, search, held>>
cache_vars == <<lru, touched>>

-----------------------------------------------------------------------------
(* Bounds of the model *)

MaxBlocks == 3      \* appends are stopped at this ledger length
MaxClock == 1       \* the wall clock ranges over 0..MaxClock ticks
MaxTamper == 1      \* stored fields are changed from outside at most this often
MaxConcBlocks == 2  \* overlapping appends are stopped at this ledger length

-----------------------------------------------------------------------------
(* Characters and strings *)

ShaTag == -1
ChrA == <<10>>
ChrB == <<11>>
ChrDot == <<12>>
ChrMinus == <<13>>
ChrT == <<14>>
ChrLe == <<15>>
ChrLs == <<16>>
ChrLt == <<17>>

Digit(d) == <<d>>

\* str(index): the decimal digits of a Python int
RECURSIVE DecStr(_)
DecStr(n) ==
    IF n < 0 THEN <<ChrMinus>> \o DecStr(-n)
    ELSE IF n < 10 THEN <<Digit(n)>>
    ELSE DecStr(n \div 10) \o <<Digit(n % 10)>>

\* c * n as one run
Repeat(c, n) == << <<c, n>> >>

\* "0" * 64
HashLen == 64
Sentinel == Repeat(0, HashLen)

\* sha256(value.encode()).hexdigest()
SHA256(value) == << <<ShaTag, value>> >>

\* len(h) == 64 and all(c in "0123456789abcdef" for c in h), for a digest atom
IsHexDigest(h) == Len(h) = 1 /\ Len(h[1]) = 2 /\ h[1][1] = ShaTag

\* "%0*d": n in decimal, padded with zeros to at least w digits
ZeroPad(n, w) ==
    LET digits == DecStr(n)
    IN  [k \in 1..(IF w > Len(digits) THEN w - Len(digits) ELSE 0) |-> Digit(0)]
            \o digits

\* datetime.isoformat(), from the 'T' on: "T" + SS, then "." + ffffff unless
\* the microsecond is zero (the date, hour and minute do not change here)
TicksPerSecond == 2
IsoFormat(t) ==
    LET second == (t \div TicksPerSecond) % 60
        microsecond == (t % TicksPerSecond) * (1000000 \div TicksPerSecond)
    IN  <<ChrT>> \o ZeroPad(second, 2) \o
        (IF microsecond = 0 THEN <<>> ELSE <<ChrDot>> \o ZeroPad(microsecond, 6))

utcnow_isoformat == IsoFormat(clock)

\* the payloads callers pass
DataSet == { <<ChrA>>, <<ChrA, ChrB>> }

None == [none |-> TRUE]

\* the request threads of the (threaded) Flask server that share hash_service
Appenders == {1, 2}
Reader == 3
Threads == Appenders \cup {Reader}

-----------------------------------------------------------------------------
(* HashService *)

Block(index, timestamp, data, previous_hash, hash) ==
    [index |-> index, timestamp |-> timestamp, data |-> data,
     previous_hash |-> previous_hash, hash |-> hash]

calculate_hash(index, timestamp, data, previous_hash) ==
    LET value == DecStr(index) \o timestamp \o data \o previous_hash
    IN  SHA256(value)

\* a slip: the first block's hash, self.blocks[0].hash, instead of the last's
last_hash_first(bs) == IF Len(bs) > 0 THEN bs[1].hash ELSE Sentinel

\* self.blocks[-1].hash if self.blocks else "0" * 64
last_hash(bs) == IF Len(bs) > 0 THEN bs[Len(bs)].hash ELSE Sentinel

\* a slip: self.blocks.insert(0, block)
list_insert_front(bs, block) == <<block>> \o bs

\* self.blocks.append(block)
list_append(bs, block) == Append(bs, block)

\* a slip: the hash is taken over the sentinel, not over previous_hash
new_block_unlinked_hash(bs, timestamp, data) ==
    LET index == Len(bs)
        previous_hash == IF Len(bs) > 0 THEN bs[Len(bs)].hash ELSE Sentinel
        block_hash == SHA256(DecStr(index) \o timestamp \o data \o Sentinel)
    IN  [index |-> index, timestamp |-> timestamp, data |-> data,
         previous_hash |-> previous_hash, hash |-> block_hash]

\* a slip: index = len(self.blocks) + 1
new_block_one_based(bs, timestamp, data) ==
    LET index == Len(bs) + 1
        previous_hash == IF Len(bs) > 0 THEN bs[Len(bs)].hash ELSE Sentinel
        block_hash == SHA256(DecStr(index) \o timestamp \o data \o previous_hash)
    IN  [index |-> index, timestamp |-> timestamp, data |-> data,
         previous_hash |-> previous_hash, hash |-> block_hash]

\* the block create_block builds from the list bs it reads
new_block(bs, timestamp, data) ==
    LET index == Len(bs)
        previous_hash == last_hash(bs)
        block_hash == calculate_hash(index, timestamp, data, previous_hash)
    IN  Block(index, timestamp, data, previous_hash, block_hash)

BadLink == "invalid previous hash reference"
BadHash == "invalid hash"

\* f"Block {i} has invalid previous hash reference" / f"Block {i} has invalid hash"
ErrorText(i, what) == [block |-> i, text |-> what]

\* a slip: the hash is recomputed before the link is compared
RECURSIVE verify_from_hash_first(_, _)
verify_from_hash_first(bs, i) ==
    IF i >= Len(bs)
    THEN [valid |-> TRUE, block_count |-> Len(bs)]
    ELSE LET current == bs[i + 1]
             previous == bs[i]
             calculated_hash == calculate_hash(current.index, current.timestamp,
                                               current.data, current.previous_hash)
         IN  IF calculated_hash # current.hash
             THEN [valid |-> FALSE, error |-> ErrorText(i, BadHash)]
             ELSE IF current.previous_hash # previous.hash
             THEN [valid |-> FALSE, error |-> ErrorText(i, BadLink)]
             ELSE verify_from_hash_first(bs, i + 1)

\* the loop of verify_chain from Python index i on (bs[i + 1] is self.blocks[i])
RECURSIVE verify_from(_, _)
verify_from(bs, i) ==
    IF i >= Len(bs)
    THEN [valid |-> TRUE, block_count |-> Len(bs)]
    ELSE LET current == bs[i + 1]
             previous == bs[i]
             calculated_hash == calculate_hash(current.index, current.timestamp,
                                               current.data, current.previous_hash)
         IN  IF current.previous_hash # previous.hash
             THEN [valid |-> FALSE, error |-> ErrorText(i, BadLink)]
             ELSE IF calculated_hash # current.hash
             THEN [valid |-> FALSE, error |-> ErrorText(i, BadHash)]
             ELSE verify_from(bs, i + 1)

\* a variant that also recomputes the hash of block 0
verify_chain_with_genesis(bs) ==
    IF Len(bs) > 0 /\ bs[1].hash # calculate_hash(bs[1].index, bs[1].timestamp,
                                                  bs[1].data, bs[1].previous_hash)
    THEN [valid |-> FALSE, error |-> ErrorText(0, BadHash)]
    ELSE verify_from(bs, 1)

\* range(1, len(self.blocks)), then the return of lines 85-88
verify_chain(bs) == verify_from(bs, 1)

\* a slip: no lower bound, so a negative index counts from the end of the list
get_block_no_lower_bound(bs, index) ==
    IF index < Len(bs)
    THEN IF index >= 0 THEN bs[index + 1]
         ELSE IF -index <= Len(bs) THEN bs[Len(bs) + index + 1] ELSE None
    ELSE None

get_block(bs, index) ==
    IF 0 <= index /\ index < Len(bs) THEN bs[index + 1] ELSE None

\* one level of the Merkle tree: pad an odd level, then hash adjacent pairs
next_level_rehash_last(hashes) ==
    LET padded == IF Len(hashes) % 2 = 1
                  THEN Append(hashes, SHA256(hashes[Len(hashes)]))
                  ELSE hashes
    IN  [k \in 1..(Len(padded) \div 2) |->
            SHA256(padded[2 * k - 1] \o padded[2 * k])]

next_level_sorted_pairs(hashes) ==
    LET padded == IF Len(hashes) % 2 = 1
                  THEN Append(hashes, hashes[Len(hashes)])
                  ELSE hashes
    IN  [k \in 1..(Len(padded) \div 2) |->
            SHA256(CHOOSE v \in { padded[2 * k - 1] \o padded[2 * k],
                                  padded[2 * k] \o padded[2 * k - 1] } : TRUE)]

next_level(hashes) ==
    LET padded == IF Len(hashes) % 2 = 1
                  THEN Append(hashes, hashes[Len(hashes)])
                  ELSE hashes
    IN  [k \in 1..(Len(padded) \div 2) |->
            SHA256(padded[2 * k - 1] \o padded[2 * k])]

RECURSIVE merkle_loop(_)
merkle_loop(hashes) ==
    IF Len(hashes) > 1 THEN merkle_loop(next_level(hashes)) ELSE hashes[1]

calculate_merkle_root(data_list) ==
    IF Len(data_list) = 0
    THEN SHA256(<<>>)
    ELSE merkle_loop([k \in 1..Len(data_list) |-> SHA256(data_list[k])])

health_check(bs, now) ==
    LET test_hash == calculate_hash(0, now, <<ChrLt, ChrLe, ChrLs, ChrLt>>, Sentinel)
    IN  [status |-> "healthy", block_count |-> Len(bs),
         test_hash_valid |-> IsHexDigest(test_hash)]

-----------------------------------------------------------------------------
(* The calls, each completed before the next starts *)

Init ==
    /\ blocks = <<>>
    /\ clock = 0
    /\ result = [op |-> "init", arg |-> None, ret |-> None]
    /\ tampered = <<>>
    /\ pc = [t \in Threads |-> "idle"]
    /\ frame = [t \in Threads |-> [op |-> "none"]]
    /\ merkle = [pc |-> "idle"]
    /\ lru = None
    /\ touched = <<>>
    /\ engine = None
    /\ oracle = <<>>
    /\ search = [op |-> "none"]
    /\ held = <<>>

CreateBlock(data) ==
    /\ Len(blocks) < MaxBlocks
    /\ LET block == new_block(blocks, utcnow_isoformat, data)
       IN  /\ blocks' = list_append(blocks, block)
           /\ result' = [op |-> "create_block", arg |-> data, ret |-> block]
    /\ UNCHANGED <<clock, tampered, pc, frame, merkle, cache_vars, proof_vars>>

VerifyChain ==
    /\ result' = [op |-> "verify_chain", arg |-> None, ret |-> verify_chain(blocks)]
    /\ UNCHANGED <<blocks, clock, tampered, pc, frame, merkle, cache_vars, proof_vars>>

GetBlockArgs == -2..(MaxBlocks + 1)

GetBlock(index) ==
    /\ result' = [op |-> "get_block", arg |-> index, ret |-> get_block(blocks, index)]
    /\ UNCHANGED <<blocks, clock, tampered, pc, frame, merkle, cache_vars, proof_vars>>

MerkleArgs ==
    { <<>>, << <<ChrA>> >>, << <<ChrA>>, <<ChrB>> >>, << <<ChrB>>, <<ChrA>> >>,
      << <<ChrA>>, <<ChrB>>, <<ChrA, ChrB>> >> }

MerkleRoot(data_list) ==
    /\ result' = [op |-> "calculate_merkle_root", arg |-> data_list,
                  ret |-> calculate_merkle_root(data_list)]
    /\ UNCHANGED <<blocks, clock, tampered, pc, frame, merkle, cache_vars, proof_vars>>

HealthCheck ==
    /\ result' = [op |-> "health_check", arg |-> None,
                  ret |-> health_check(blocks, utcnow_isoformat)]
    /\ UNCHANGED <<blocks, clock, tampered, pc, frame, merkle, cache_vars, proof_vars>>

\* the wall clock moves, forwards or (when it is adjusted) backwards
ClockStep ==
    /\ clock' \in (0..MaxClock) \ {clock}
    /\ UNCHANGED <<blocks, result, tampered, pc, frame, merkle, cache_vars, proof_vars>>

Next ==
    \/ \E data \in DataSet : CreateBlock(data)
    \/ VerifyChain
    \/ \E index \in GetBlockArgs : GetBlock(index)
    \/ \E data_list \in MerkleArgs : MerkleRoot(data_list)
    \/ HealthCheck
    \/ ClockStep

Spec == Init /\ [][Next]_vars

-----------------------------------------------------------------------------
(* The ledger with stored fields changed from outside.  The list and the   *)
(* Block objects are plain mutable Python objects, so a caller holding the *)
(* service can assign to any field of any stored block.                    *)

Fields == {"index", "timestamp", "data", "previous_hash", "hash"}

\* the digests an outside writer has at hand for block k of bs
HashValues(bs, k) ==
    {Sentinel, SHA256(<<>>)}
        \cup {bs[j].hash : j \in 1..Len(bs)}
        \cup {calculate_hash(bs[k].index, bs[k].timestamp, bs[k].data,
                             bs[k].previous_hash)}

TamperValues(bs, k, field) ==
    CASE field = "index" -> 0..MaxBlocks
      [] field = "timestamp" -> {IsoFormat(t) : t \in 0..MaxClock}
      [] field = "data" -> DataSet \cup {<<>>}
      [] OTHER -> HashValues(bs, k)

\* self.blocks[k - 1].<field> = value, written by the service's holder
Tamper(k, field, value) ==
    /\ Len(tampered) < MaxTamper
    /\ k \in 1..Len(blocks)
    /\ value # blocks[k][field]
    /\ blocks' = [blocks EXCEPT ![k][field] = value]
    /\ tampered' = Append(tampered, [block |-> k - 1, field |-> field])
    /\ result' = [op |-> "tamper", arg |-> k - 1, ret |-> None]
    /\ UNCHANGED <<clock, pc, frame, merkle, cache_vars, proof_vars>>

TamperAny ==
    \E k \in 1..Len(blocks), field \in Fields :
        \E value \in TamperValues(blocks, k, field) : Tamper(k, field, value)

NextTamper ==
    \/ \E data \in DataSet : CreateBlock(data)
    \/ VerifyChain
    \/ TamperAny

SpecTamper == Init /\ [][NextTamper]_vars

-----------------------------------------------------------------------------
(* Calls that overlap.  HashService takes no lock; under the interpreter   *)
(* lock each read of self.blocks, each read of the clock and the           *)
(* list.append are single steps, and threads may switch between them.      *)
(* The clock stands still in these runs: a timestamp is passed through     *)
(* unread, and its value decides nothing about the interleavings.          *)

InFlight == Cardinality({t \in Appenders : pc[t] # "idle"})

\* a request thread enters create_block(data)
CallCreate(t, data) ==
    /\ pc[t] = "idle"
    /\ Len(blocks) + InFlight < MaxConcBlocks
    /\ pc' = [pc EXCEPT ![t] = "l34"]
    /\ frame' = [frame EXCEPT ![t] = [op |-> "create_block", data |-> data]]
    /\ UNCHANGED <<blocks, clock, result, tampered, merkle, cache_vars, proof_vars>>

\* index = len(self.blocks)
ReadLen(t) ==
    /\ pc[t] = "l34"
    /\ pc' = [pc EXCEPT ![t] = "l35"]
    /\ frame' = [frame EXCEPT ![t] =
          [op |-> "create_block", data |-> frame[t].data, index |-> Len(blocks)]]
    /\ UNCHANGED <<blocks, clock, result, tampered, merkle, cache_vars, proof_vars>>

\* timestamp = datetime.utcnow().isoformat()
ReadClock(t) ==
    /\ pc[t] = "l35"
    /\ pc' = [pc EXCEPT ![t] = "l36"]
    /\ frame' = [frame EXCEPT ![t] =
          [op |-> "create_block", data |-> frame[t].data, index |-> frame[t].index,
           timestamp |-> utcnow_isoformat]]
    /\ UNCHANGED <<blocks, clock, result, tampered, merkle, cache_vars, proof_vars>>

\* previous_hash = self.blocks[-1].hash if self.blocks else "0" * 64
ReadLast(t) ==
    /\ pc[t] = "l36"
    /\ pc' = [pc EXCEPT ![t] = "l39"]
    /\ frame' = [frame EXCEPT ![t] =
          [op |-> "create_block", data |-> frame[t].data, index |-> frame[t].index,
           timestamp |-> frame[t].timestamp, previous_hash |-> last_hash(blocks)]]
    /\ UNCHANGED <<blocks, clock, result, tampered, merkle, cache_vars, proof_vars>>

\* block_hash = self.calculate_hash(...); block = Block(...): all local
Construct(t) ==
    /\ pc[t] = "l39"
    /\ LET f == frame[t]
           block_hash == calculate_hash(f.index, f.timestamp, f.data, f.previous_hash)
           block == Block(f.index, f.timestamp, f.data, f.previous_hash, block_hash)
       IN  frame' = [frame EXCEPT ![t] = [op |-> "create_block", block |-> block]]
    /\ pc' = [pc EXCEPT ![t] = "l50"]
    /\ UNCHANGED <<blocks, clock, result, tampered, merkle, cache_vars, proof_vars>>

\* self.blocks.append(block); return block
Publish(t) ==
    /\ pc[t] = "l50"
    /\ blocks' = list_append(blocks, frame[t].block)
    /\ frame' = [frame EXCEPT ![t] = [op |-> "create_block", ret |-> frame[t].block]]
    /\ pc' = [pc EXCEPT ![t] = "idle"]
    /\ UNCHANGED <<clock, result, tampered, merkle, cache_vars, proof_vars>>

\* a slip: the block is appended with an empty hash ...
ConstructAppended(t) ==
    /\ pc[t] = "l39"
    /\ LET f == frame[t]
           block_hash == calculate_hash(f.index, f.timestamp, f.data, f.previous_hash)
       IN  /\ blocks' = Append(blocks,
                  Block(f.index, f.timestamp, f.data, f.previous_hash, <<>>))
           /\ frame' = [frame EXCEPT ![t] =
                  [op |-> "create_block", at |-> Len(blocks) + 1,
                   block_hash |-> block_hash]]
    /\ pc' = [pc EXCEPT ![t] = "l50"]
    /\ UNCHANGED <<clock, result, tampered, merkle, cache_vars, proof_vars>>

\* ... and block.hash is assigned afterwards
FillHash(t) ==
    /\ pc[t] = "l50"
    /\ blocks' = [blocks EXCEPT ![frame[t].at].hash = frame[t].block_hash]
    /\ frame' = [frame EXCEPT ![t] =
          [op |-> "create_block", ret |-> blocks'[frame[t].at]]]
    /\ pc' = [pc EXCEPT ![t] = "idle"]
    /\ UNCHANGED <<clock, result, tampered, merkle, cache_vars, proof_vars>>

create_block_append_first(t) ==
    \/ ReadLen(t)
    \/ ReadClock(t)
    \/ ReadLast(t)
    \/ ConstructAppended(t)
    \/ FillHash(t)

\* the steps of create_block, lines 34-52
create_block_steps(t) ==
    \/ ReadLen(t)
    \/ ReadClock(t)
    \/ ReadLast(t)
    \/ Construct(t)
    \/ Publish(t)

\* verify_chain: range(1, len(self.blocks)) is evaluated once
VerifyStart(t) ==
    /\ pc[t] = "idle"
    /\ pc' = [pc EXCEPT ![t] = "l61"]
    /\ frame' = [frame EXCEPT ![t] =
          [op |-> "verify_chain", n |-> Len(blocks), i |-> 1]]
    /\ UNCHANGED <<blocks, clock, result, tampered, merkle, cache_vars, proof_vars>>

\* one pass of the loop body, lines 62-83, or the end of the loop
VerifyStep(t) ==
    /\ pc[t] = "l61"
    /\ LET f == frame[t]
       IN  IF f.i >= f.n
           THEN /\ pc' = [pc EXCEPT ![t] = "l85"]
                /\ frame' = frame
           ELSE LET current == blocks[f.i + 1]
                    previous == blocks[f.i]
                    calculated_hash ==
                        calculate_hash(current.index, current.timestamp,
                                       current.data, current.previous_hash)
                    seen == [op |-> "verify_chain", n |-> f.n,
                             current |-> current, previous |-> previous]
                IN  IF current.previous_hash # previous.hash
                    THEN /\ pc' = [pc EXCEPT ![t] = "idle"]
                         /\ frame' = [frame EXCEPT ![t] = [op |-> "verify_chain",
                               current |-> current, previous |-> previous,
                               ret |-> [valid |-> FALSE,
                                        error |-> ErrorText(f.i, BadLink)]]]
                    ELSE IF calculated_hash # current.hash
                    THEN /\ pc' = [pc EXCEPT ![t] = "idle"]
                         /\ frame' = [frame EXCEPT ![t] = [op |-> "verify_chain",
                               current |-> current, previous |-> previous,
                               ret |-> [valid |-> FALSE,
                                        error |-> ErrorText(f.i, BadHash)]]]
                    ELSE /\ pc' = pc
                         /\ frame' = [frame EXCEPT ![t] = [op |-> "verify_chain",
                               n |-> f.n, i |-> f.i + 1,
                               current |-> current, previous |-> previous]]
    /\ UNCHANGED <<blocks, clock, result, tampered, merkle, cache_vars, proof_vars>>

\* return {"valid": True, "block_count": len(self.blocks)}
VerifyReturn(t) ==
    /\ pc[t] = "l85"
    /\ pc' = [pc EXCEPT ![t] = "idle"]
    /\ frame' = [frame EXCEPT ![t] = [op |-> "verify_chain",
          ret |-> [valid |-> TRUE, block_count |-> Len(blocks)]]]
    /\ UNCHANGED <<blocks, clock, result, tampered, merkle, cache_vars, proof_vars>>

\* get_block: if 0 <= index < len(self.blocks)
GetCheck(t, index) ==
    /\ pc[t] = "idle"
    /\ IF 0 <= index /\ index < Len(blocks)
       THEN /\ pc' = [pc EXCEPT ![t] = "l98"]
            /\ frame' = [frame EXCEPT ![t] = [op |-> "get_block", index |-> index]]
       ELSE /\ pc' = pc
            /\ frame' = [frame EXCEPT ![t] =
                  [op |-> "get_block", index |-> index, ret |-> None]]
    /\ UNCHANGED <<blocks, clock, result, tampered, merkle, cache_vars, proof_vars>>

\* return self.blocks[index]
GetRead(t) ==
    /\ pc[t] = "l98"
    /\ pc' = [pc EXCEPT ![t] = "idle"]
    /\ frame' = [frame EXCEPT ![t] = [op |-> "get_block", index |-> frame[t].index,
          ret |-> blocks[frame[t].index + 1]]]
    /\ UNCHANGED <<blocks, clock, result, tampered, merkle, cache_vars, proof_vars>>

NextConc ==
    \/ \E t \in Appenders, data \in DataSet : CallCreate(t, data)
    \/ \E t \in Appenders : create_block_steps(t)
    \/ VerifyStart(Reader)
    \/ VerifyStep(Reader)
    \/ VerifyReturn(Reader)
    \/ \E index \in -1..MaxConcBlocks : GetCheck(Reader, index)
    \/ GetRead(Reader)

SpecConc == Init /\ [][NextConc]_vars

-----------------------------------------------------------------------------
(* Properties of the ledger under completed, non-overlapping calls *)

ReadOps == {"verify_chain", "get_block", "calculate_merkle_root", "health_check"}

\* the hash of the block at list position p, recomputed from its stored fields
Recomputed(bs, p) ==
    SHA256(DecStr(bs[p].index) \o bs[p].timestamp \o bs[p].data \o bs[p].previous_hash)

\* C1: in every ledger reached by completed appends and reads, each block
\* after the first carries the hash of its predecessor as previous_hash, each
\* block's stored hash is the hash of its own four other fields, and block 0's
\* previous_hash is 64 '0' characters.
C1_ChainInvariant ==
    /\ \A p \in 2..Len(blocks) : blocks[p].previous_hash = blocks[p - 1].hash
    /\ \A p \in 1..Len(blocks) : blocks[p].hash = Recomputed(blocks, p)
    /\ Len(blocks) > 0 => blocks[1].previous_hash = << <<0, 64>> >>

C1_Witness == Len(blocks) >= 3 /\ result.op = "get_block"

\* C2: with no outside change of stored fields, every verify_chain call made
\* after appends returns valid (with the count of blocks).
C2_VerifyAfterAppend ==
    result.op = "verify_chain" =>
        result.ret = [valid |-> TRUE, block_count |-> Len(blocks)]

C2_Witness ==
    /\ result.op = "verify_chain"
    /\ Len(blocks) >= 2
    /\ result.ret.valid

\* C5: the block at position i has index i, and create_block returns the
\* block it stored, whose index is the length of the list before the call.
C5_IndexIsPosition ==
    /\ [](\A p \in 1..Len(blocks) : blocks[p].index = p - 1)
    /\ [][(result'.op = "create_block" /\ result' # result) =>
            /\ result'.ret.index = Len(blocks)
            /\ Len(blocks') > 0
            /\ blocks'[Len(blocks')] = result'.ret]_vars

C5_Witness ==
    /\ result.op = "create_block"
    /\ Len(blocks) = 3
    /\ result.ret.index = 2

\* C6: the list is append-only: its length never decreases, a create_block
\* call lengthens it by exactly one and leaves every block stored before
\* unchanged, and verify_chain, get_block, calculate_merkle_root and
\* health_check leave the whole list unchanged.
C6_AppendOnly ==
    [][/\ Len(blocks') >= Len(blocks)
       /\ \A p \in 1..Len(blocks) : p <= Len(blocks') /\ blocks'[p] = blocks[p]
       /\ (result'.op = "create_block" /\ result' # result) =>
              Len(blocks') = Len(blocks) + 1
       /\ (result'.op \in ReadOps /\ result' # result) => blocks' = blocks]_vars

C6_Witness ==
    /\ Len(blocks) >= 2
    /\ result.op = "calculate_merkle_root"

\* C9: get_block(index) returns the block stored at position index when
\* 0 <= index < length and the not-found value None for every other integer,
\* negative ones included; the call leaves the list unchanged.
C9_GetBlock ==
    /\ [](result.op = "get_block" =>
            IF 0 <= result.arg /\ result.arg < Len(blocks)
            THEN result.ret = blocks[result.arg + 1]
            ELSE result.ret = None)
    /\ [][(result'.op = "get_block" /\ result' # result) => blocks' = blocks]_vars

C9_Witness ==
    /\ result.op = "get_block"
    /\ result.arg < 0
    /\ Len(blocks) >= 1
    /\ result.ret = None

-----------------------------------------------------------------------------
(* Properties of verify_chain on a ledger whose fields were changed *)

LinkFails(bs, i) == bs[i + 1].previous_hash # bs[i].hash
HashFails(bs, i) == bs[i + 1].hash # Recomputed(bs, i + 1)
BrokenAt(bs) == {i \in 1..(Len(bs) - 1) : LinkFails(bs, i) \/ HashFails(bs, i)}
Least(S) == CHOOSE m \in S : \A n \in S : m <= n

\* C3: after exactly one change of one block's data, previous_hash or hash,
\* the next verify_chain reports failure, at an index not below that block's.
C3_TamperDetected ==
    (/\ Len(tampered) = 1
     /\ tampered[1].field \in {"data", "previous_hash", "hash"}
     /\ result.op = "verify_chain") =>
        /\ ~result.ret.valid
        /\ result.ret.error.block >= tampered[1].block

\* C7: a failing verify_chain names the least index i >= 1 at which the link
\* to the previous block or the recomputed hash is wrong; when both are wrong
\* there it reports the link; the two reports differ in their text.
C7_FirstBreak ==
    result.op = "verify_chain" =>
        IF BrokenAt(blocks) = {}
        THEN result.ret.valid
        ELSE LET m == Least(BrokenAt(blocks))
             IN  /\ ~result.ret.valid
                 /\ result.ret.error.block = m
                 /\ LinkFails(blocks, m) =>
                        result.ret.error.text = "invalid previous hash reference"
                 /\ ~LinkFails(blocks, m) =>
                        result.ret.error.text = "invalid hash"

C7_Witness ==
    /\ result.op = "verify_chain"
    /\ ~result.ret.valid
    /\ result.ret.error.block >= 1
    /\ LinkFails(blocks, result.ret.error.block)
    /\ HashFails(blocks, result.ret.error.block)

\* C8: on a list of length 0 or 1 verify_chain returns valid whatever the
\* stored fields of the one block are, and every valid result carries the
\* current length of the list as block_count.
C8_TrivialChains ==
    result.op = "verify_chain" =>
        /\ Len(blocks) <= 1 => result.ret.valid
        /\ result.ret.valid => result.ret.block_count = Len(blocks)

C8_Witness ==
    /\ Len(blocks) = 1
    /\ tampered # <<>>
    /\ result.op = "verify_chain"
    /\ result.ret.valid

-----------------------------------------------------------------------------
(* Properties of overlapping calls *)

\* C4: under every interleaving of overlapping create_block calls no two
\* stored blocks have the same index, no two have the same previous_hash, and
\* every block after the first links to the hash of the block stored just
\* before it.
C4_SerialisedAppends ==
    /\ \A p, q \in 1..Len(blocks) :
          p # q => /\ blocks[p].index # blocks[q].index
                   /\ blocks[p].previous_hash # blocks[q].previous_hash
    /\ \A p \in 2..Len(blocks) : blocks[p].previous_hash = blocks[p - 1].hash

\* all five fields are set and the hash is the hash of the other four
Complete(b) ==
    /\ DOMAIN b = Fields
    /\ b.hash = SHA256(DecStr(b.index) \o b.timestamp \o b.data \o b.previous_hash)

\* the blocks the reader thread holds in its local variables
Observed ==
    LET f == frame[Reader]
    IN  (IF "current" \in DOMAIN f THEN {f.current, f.previous} ELSE {})
            \cup (IF f.op = "get_block" /\ "ret" \in DOMAIN f /\ f.ret # None
                  THEN {f.ret} ELSE {})

\* C10: a verify_chain or get_block that overlaps create_block calls sees
\* the list without the new block or with the new block complete: every
\* block in the list, and every block the reader took from it, has its five
\* fields set and a hash that fits them, and the list changes only by gaining
\* one block at its end.
C10_NoPartialBlock ==
    /\ [](\A p \in 1..Len(blocks) : Complete(blocks[p]))
    /\ [](\A b \in Observed : Complete(b))
    /\ [][blocks' # blocks =>
            /\ Len(blocks') = Len(blocks) + 1
            /\ \A p \in 1..Len(blocks) : blocks'[p] = blocks[p]]_vars

C10_Witness ==
    /\ \E t \in Appenders : pc[t] = "l50"
    /\ pc[Reader] = "idle"
    /\ frame[Reader].op = "get_block"
    /\ "ret" \in DOMAIN frame[Reader]
    /\ frame[Reader].ret # None
    /\ frame[Reader].ret = blocks[Len(blocks)]

-----------------------------------------------------------------------------
(* calculate_merkle_root, one pass of its while loop at a time.  The call   *)
(* is a pure function of data_list, so the initial states range over the   *)
(* lists it is given.                                                      *)

MaxItems == 4       \* the lists given to calculate_merkle_root are this long

MerkleItems == { <<ChrA>>, <<ChrB>>, <<ChrA, ChrB>> }
MerkleLists == UNION { [1..n -> MerkleItems] : n \in 0..MaxItems }

\* One test of "while len(hashes) > 1": another level, or "return hashes[0]".
merkle_step_do_while(hashes) ==
    LET level == next_level(hashes)
    IN  IF Len(level) > 1
        THEN [done |-> FALSE, hashes |-> level]
        ELSE [done |-> TRUE, root |-> level[1]]

merkle_step(hashes) ==
    IF Len(hashes) > 1
    THEN [done |-> FALSE, hashes |-> next_level(hashes)]
    ELSE [done |-> TRUE, root |-> hashes[1]]

InitMerkle ==
    /\ blocks = <<>>
    /\ clock = 0
    /\ result = [op |-> "init", arg |-> None, ret |-> None]
    /\ tampered = <<>>
    /\ pc = [t \in Threads |-> "idle"]
    /\ frame = [t \in Threads |-> [op |-> "none"]]
    /\ \E data_list \in MerkleLists :
           merkle = [pc |-> "call", data_list |-> data_list, hashes |-> <<>>,
                     levels |-> 0, root |-> None]
    /\ lru = None
    /\ touched = <<>>
    /\ engine = None
    /\ oracle = <<>>
    /\ search = [op |-> "none"]
    /\ held = <<>>

\* lines 106-111: the empty list returns at once, else every item is hashed
MerkleCall ==
    /\ merkle.pc = "call"
    /\ IF Len(merkle.data_list) = 0
       THEN merkle' = [merkle EXCEPT !.pc = "done", !.root = SHA256(<<>>)]
       ELSE merkle' = [merkle EXCEPT
                          !.pc = "loop",
                          !.hashes = [k \in 1..Len(merkle.data_list) |->
                                         SHA256(merkle.data_list[k])]]
    /\ UNCHANGED <<clock, result, ledger_vars, proof_vars, cache_vars>>

\* lines 113-121: one pass of the loop body
MerkleLevel ==
    /\ merkle.pc = "loop"
    /\ ~merkle_step(merkle.hashes).done
    /\ merkle' = [merkle EXCEPT !.hashes = merkle_step(merkle.hashes).hashes,
                                !.levels = @ + 1]
    /\ UNCHANGED <<clock, result, ledger_vars, proof_vars, cache_vars>>

\* line 123
MerkleReturn ==
    /\ merkle.pc = "loop"
    /\ merkle_step(merkle.hashes).done
    /\ merkle' = [merkle EXCEPT !.pc = "done",
                                !.root = merkle_step(merkle.hashes).root]
    /\ UNCHANGED <<clock, result, ledger_vars, proof_vars, cache_vars>>

NextMerkle ==
    \/ MerkleCall
    \/ MerkleLevel
    \/ MerkleReturn

SpecMerkle == InitMerkle /\ [][NextMerkle]_vars

-----------------------------------------------------------------------------
(* C11: the Merkle root of the empty list is SHA256 of the empty string,    *)
(* and the root of a one-item list [x] is SHA256(x): the loop body never   *)
(* runs, so nothing is duplicated and nothing is hashed a second time.     *)

C11_SmallLists ==
    merkle.pc = "done" =>
        /\ Len(merkle.data_list) = 0 =>
               merkle.root = SHA256(<<>>) /\ merkle.levels = 0
        /\ Len(merkle.data_list) = 1 =>
               /\ merkle.root = SHA256(merkle.data_list[1])
               /\ merkle.levels = 0
               /\ merkle.root = calculate_merkle_root(merkle.data_list)

C11_Witness ==
    /\ merkle.pc = "done"
    /\ merkle.data_list = << <<ChrA, ChrB>> >>
    /\ merkle.root = SHA256(<<ChrA, ChrB>>)

-----------------------------------------------------------------------------
(* C12: for every list of two or more items the root is the one of the     *)
(* reference computation: hash each item, then combine neighbours left to  *)
(* right, the last hash of a level of odd size being paired with itself    *)
(* as it is, until one hash is left.  A level of m hashes is followed by   *)
(* one of ceil(m/2), so the loop ends; the root of [a, b, c] is            *)
(* H(H(h_a + h_b) + H(h_c + h_c)).                                         *)

RefPartner(h, k) == IF 2 * k <= Len(h) THEN h[2 * k] ELSE h[2 * k - 1]

RefCombine(h) ==
    [k \in 1..((Len(h) + 1) \div 2) |-> SHA256(h[2 * k - 1] \o RefPartner(h, k))]

RECURSIVE RefReduce(_)
RefReduce(h) == IF Len(h) = 1 THEN h[1] ELSE RefReduce(RefCombine(h))

RefRoot(data_list) ==
    RefReduce([k \in 1..Len(data_list) |-> SHA256(data_list[k])])

RECURSIVE RefLevels(_)
RefLevels(m) == IF m <= 1 THEN 0 ELSE 1 + RefLevels((m + 1) \div 2)

RootOfThree(a, b, c) ==
    SHA256(SHA256(SHA256(a) \o SHA256(b)) \o SHA256(SHA256(c) \o SHA256(c)))

C12_LevelShrinks ==
    (merkle.pc = "loop" /\ merkle'.pc = "loop" /\ merkle' # merkle) =>
        /\ Len(merkle'.hashes) = (Len(merkle.hashes) + 1) \div 2
        /\ Len(merkle'.hashes) < Len(merkle.hashes)

C12_Result ==
    (merkle.pc = "done" /\ Len(merkle.data_list) >= 2) =>
        /\ merkle.root = RefRoot(merkle.data_list)
        /\ merkle.root = calculate_merkle_root(merkle.data_list)
        /\ merkle.levels = RefLevels(Len(merkle.data_list))
        /\ Len(merkle.data_list) = 3 =>
               merkle.root = RootOfThree(merkle.data_list[1],
                                         merkle.data_list[2],
                                         merkle.data_list[3])

C12_Reference == [](C12_Result) /\ [][C12_LevelShrinks]_vars

C12_Witness ==
    /\ merkle.pc = "done"
    /\ merkle.data_list = << <<ChrA>>, <<ChrB>>, <<ChrA, ChrB>> >>
    /\ merkle.levels = 2
    /\ merkle.root = RootOfThree(<<ChrA>>, <<ChrB>>, <<ChrA, ChrB>>)

-----------------------------------------------------------------------------
(* C13: the Merkle root depends on the order of the items: for two items   *)
(* a, b whose SHA-256 digests differ, the root of [a, b] is not the root   *)
(* of [b, a].                                                              *)

C13_OrderSensitive ==
    (/\ merkle.pc = "done"
     /\ Len(merkle.data_list) = 2
     /\ SHA256(merkle.data_list[1]) # SHA256(merkle.data_list[2])) =>
        merkle.root #
            calculate_merkle_root(<<merkle.data_list[2], merkle.data_list[1]>>)

C13_Witness ==
    /\ merkle.pc = "done"
    /\ merkle.data_list = << <<ChrA>>, <<ChrB>> >>
    /\ merkle.root = SHA256(SHA256(<<ChrA>>) \o SHA256(<<ChrB>>))
    /\ calculate_merkle_root(<< <<ChrB>>, <<ChrA>> >>)
           = SHA256(SHA256(<<ChrB>>) \o SHA256(<<ChrA>>))

-----------------------------------------------------------------------------
(* The proof-of-work engine (src/app/blockchain/proof.py, ProofGenerator).  *)
(*                                                                         *)
(* A bytes object is the sequence of its bytes, 0..255, and "<" on bytes   *)
(* is Python's lexicographic order.  hashlib.sha256(m).digest() is the     *)
(* value oracle[m]: the digest of an input is drawn when the input is      *)
(* hashed for the first time, differs from every digest drawn before       *)
(* (SHA-256 is idealised as collision free) and stays what it is.          *)

MaxDifficulty == 1  \* engines are built with difficulty 0..MaxDifficulty
MaxAttempts == 2    \* generate_proof is called with max_attempts up to this
MaxOracle == 4      \* hashing stops when this many inputs were hashed
MaxHeld == 2        \* the caller holds at most this many proofs
MaxForge == 1       \* the caller changes fields of held proofs this often
MaxSeconds == 1     \* time.time() ranges over the seconds 0..MaxSeconds
NextProofLimit == 2 \* stands for the 1000000 nonces find_next_proof tries

DigestSize == 32
ChainWidth == 33
ByteMax == 255

ByteRun(b, n) == [k \in 1..n |-> b]          \* bytes([b] * n); empty for n <= 0

\* x < y on bytes objects
BytesLess(x, y) ==
    \E k \in 1..(Len(y)) :
        /\ \A j \in 1..(k - 1) : j <= Len(x) /\ x[j] = y[j]
        /\ k > Len(x) \/ x[k] < y[k]

\* struct.pack(">Q", nonce) for 0 <= nonce < 2^32: eight bytes, big end first
pack_Q(nonce) ==
    [k \in 1..8 |-> IF k <= 4 THEN 0 ELSE (nonce \div (256 ^ (8 - k))) % 256]

hash_input(data, nonce) == data \o pack_Q(nonce)

\* line 21 and line 65
target(difficulty) ==
    ByteRun(0, difficulty) \o ByteRun(ByteMax, DigestSize - difficulty)

chain_target_stricter(difficulty) ==
    ByteRun(0, difficulty + 1) \o ByteRun(ByteMax, ChainWidth - 2 - difficulty)

chain_target(difficulty) ==
    ByteRun(0, difficulty - 1) \o ByteRun(ByteMax, ChainWidth - difficulty)

ProofGenerator(difficulty) ==
    [difficulty |-> difficulty, target |-> target(difficulty)]

Proof(data, nonce, hash, timestamp) ==
    [data |-> data, nonce |-> nonce, hash |-> hash, timestamp |-> timestamp]

\* The digests the model draws from lie around the two targets of an engine
\* of the given difficulty: with z zero bytes in front, z the difficulty or
\* one less, a digest is either target(z) itself or starts 0^z 01 and so is
\* below target(z).  The last byte of the latter is the number n of inputs
\* hashed before, which keeps the digests of different inputs apart.
LowDigest(z, n) ==
    ByteRun(0, z) \o <<1>> \o ByteRun(ByteMax, DigestSize - 2 - z) \o <<n>>

Digests(difficulty, n) ==
    UNION { { LowDigest(z, n), target(z) } :
              z \in {difficulty - 1, difficulty} \cap Nat }

PowData == { <<120>>, <<121>> }

Range(f) == { f[x] : x \in DOMAIN f }

\* the oracle after hashlib.sha256(input) was computed
Hashed(orc, self, input) ==
    IF input \in DOMAIN orc
    THEN {orc}
    ELSE { orc @@ (input :> h) :
             h \in Digests(self.difficulty, Cardinality(DOMAIN orc)) \ Range(orc) }

\* lines 23-25, read from an oracle that holds the input
_hash(orc, data, nonce) == orc[hash_input(data, nonce)]

\* lines 48-51
verify_proof_stored_hash(orc, self, proof) ==
    BytesLess(proof.hash, self.target)

verify_proof_either(orc, self, proof) ==
    LET hash_result == _hash(orc, proof.data, proof.nonce)
    IN  hash_result = proof.hash \/ BytesLess(hash_result, self.target)

verify_proof(orc, self, proof) ==
    LET hash_result == _hash(orc, proof.data, proof.nonce)
    IN  hash_result = proof.hash /\ BytesLess(hash_result, self.target)

\* lines 53-67
verify_chain_equal_stamps(orc, self, proof1, proof2) ==
    IF proof1.timestamp > proof2.timestamp
    THEN FALSE
    ELSE IF ~(verify_proof(orc, self, proof1) /\ verify_proof(orc, self, proof2))
    THEN FALSE
    ELSE BytesLess(orc[proof1.hash \o proof2.hash],
                   chain_target(self.difficulty))

verify_chain_first_only(orc, self, proof1, proof2) ==
    IF proof1.timestamp >= proof2.timestamp
    THEN FALSE
    ELSE IF ~verify_proof(orc, self, proof1)
    THEN FALSE
    ELSE BytesLess(orc[proof1.hash \o proof2.hash],
                   chain_target(self.difficulty))

ProofGenerator_verify_chain(orc, self, proof1, proof2) ==
    IF proof1.timestamp >= proof2.timestamp
    THEN FALSE
    ELSE IF ~(verify_proof(orc, self, proof1) /\ verify_proof(orc, self, proof2))
    THEN FALSE
    ELSE BytesLess(orc[proof1.hash \o proof2.hash],
                   chain_target(self.difficulty))

-----------------------------------------------------------------------------
(* The calls of the engine.  generate_proof and find_next_proof run one     *)
(* pass of their loop per step; search holds their local variables.        *)

time_time == clock \div TicksPerSecond          \* int(time.time())

\* the byte b with bit k inverted
FlipBit(b, k) == IF (b \div (2 ^ k)) % 2 = 1 THEN b - 2 ^ k ELSE b + 2 ^ k

FlipHashBit(hash, byte, k) == [hash EXCEPT ![byte] = FlipBit(@, k)]

Idle == [op |-> "none"]

Held(proof, by) == [proof |-> proof, by |-> by, changed |-> <<>>]

\* lines 32-46: one test of "while nonce < max_attempts" and one loop body
generate_proof_step_skipping(orc, self, s) ==
    IF s.nonce < s.max_attempts
    THEN LET hash_result == _hash(orc, s.data, s.nonce)
         IN  IF BytesLess(hash_result, self.target)
             THEN [done |-> TRUE, hashed |-> TRUE,
                   ret |-> Proof(s.data, s.nonce, hash_result, s.start_time)]
             ELSE [done |-> FALSE, hashed |-> TRUE, nonce |-> s.nonce + 2]
    ELSE [done |-> TRUE, hashed |-> FALSE, ret |-> None]

generate_proof_step_next_nonce(orc, self, s) ==
    IF s.nonce < s.max_attempts
    THEN LET hash_result == _hash(orc, s.data, s.nonce)
         IN  IF BytesLess(hash_result, self.target)
             THEN [done |-> TRUE, hashed |-> TRUE,
                   ret |-> Proof(s.data, s.nonce + 1, hash_result, s.start_time)]
             ELSE [done |-> FALSE, hashed |-> TRUE, nonce |-> s.nonce + 1]
    ELSE [done |-> TRUE, hashed |-> FALSE, ret |-> None]

generate_proof_step(orc, self, s) ==
    IF s.nonce < s.max_attempts
    THEN LET hash_result == _hash(orc, s.data, s.nonce)
         IN  IF BytesLess(hash_result, self.target)
             THEN [done |-> TRUE, hashed |-> TRUE,
                   ret |-> Proof(s.data, s.nonce, hash_result, s.start_time)]
             ELSE [done |-> FALSE, hashed |-> TRUE, nonce |-> s.nonce + 1]
    ELSE [done |-> TRUE, hashed |-> FALSE, ret |-> None]

\* lines 75-83: the candidate of the current nonce; start_time was read at
\* line 72, before the loop
find_next_candidate_resampled(orc, s) ==
    Proof(s.data, s.nonce, _hash(orc, s.data, s.nonce), time_time)

find_next_candidate(orc, s) ==
    Proof(s.data, s.nonce, _hash(orc, s.data, s.nonce), s.start_time)

\* lines 74-91: one pass of "while True"
find_next_proof_step_unchained(orc, self, s) ==
    LET candidate == find_next_candidate(orc, s)
    IN  IF verify_proof(orc, self, candidate)
        THEN [done |-> TRUE, hashed |-> TRUE, ret |-> candidate]
        ELSE IF s.nonce + 1 >= NextProofLimit
        THEN [done |-> TRUE, hashed |-> TRUE, ret |-> None]
        ELSE [done |-> FALSE, hashed |-> TRUE, nonce |-> s.nonce + 1]

\* the search gives up as soon as a candidate is no later than previous_proof
find_next_proof_step_giving_up(orc, self, s) ==
    LET candidate == find_next_candidate(orc, s)
    IN  IF ProofGenerator_verify_chain(orc, self, s.previous_proof, candidate)
        THEN [done |-> TRUE, hashed |-> TRUE, ret |-> candidate]
        ELSE IF s.previous_proof.timestamp >= candidate.timestamp
                \/ s.nonce + 1 >= NextProofLimit
        THEN [done |-> TRUE, hashed |-> TRUE, ret |-> None]
        ELSE [done |-> FALSE, hashed |-> TRUE, nonce |-> s.nonce + 1]

find_next_proof_step(orc, self, s) ==
    LET candidate == find_next_candidate(orc, s)
    IN  IF ProofGenerator_verify_chain(orc, self, s.previous_proof, candidate)
        THEN [done |-> TRUE, hashed |-> TRUE, ret |-> candidate]
        ELSE IF s.nonce + 1 >= NextProofLimit
        THEN [done |-> TRUE, hashed |-> TRUE, ret |-> None]
        ELSE [done |-> FALSE, hashed |-> TRUE, nonce |-> s.nonce + 1]

\* an exception raised to the caller, in place of a return value
Raised(exception) == [raised |-> exception]

\* struct.pack(">Q", nonce) raises struct.error unless 0 <= nonce < 2^64; the
\* model holds no nonce of 2^64 or more
pack_Q_accepts(nonce) == nonce >= 0

verify_proof_raises(proof) == ~pack_Q_accepts(proof.nonce)

\* lines 56-61: proof2 is looked at only when verify_proof(proof1) is True
verify_chain_raises(orc, self, proof1, proof2) ==
    /\ proof1.timestamp < proof2.timestamp
    /\ \/ verify_proof_raises(proof1)
       \/ verify_proof(orc, self, proof1) /\ verify_proof_raises(proof2)

\* the oracle after verify_proof(proof) read it
VerifyProofReads(orc, self, proof) ==
    IF pack_Q_accepts(proof.nonce)
    THEN Hashed(orc, self, hash_input(proof.data, proof.nonce))
    ELSE {orc}

\* the oracle once every digest verify_chain(proof1, proof2) can ask for is
\* drawn
VerifyChainReads(orc, self, proof1, proof2) ==
    UNION { UNION { Hashed(o2, self, proof1.hash \o proof2.hash) :
                      o2 \in VerifyProofReads(o1, self, proof2) } :
              o1 \in VerifyProofReads(orc, self, proof1) }

InBudget(orc) == Cardinality(DOMAIN orc) <= MaxOracle

InitPow ==
    /\ blocks = <<>>
    /\ clock = 0
    /\ result = [op |-> "init", arg |-> None, ret |-> None]
    /\ tampered = <<>>
    /\ pc = [t \in Threads |-> "idle"]
    /\ frame = [t \in Threads |-> [op |-> "none"]]
    /\ merkle = [pc |-> "idle"]
    /\ lru = None
    /\ touched = <<>>
    /\ \E difficulty \in 0..MaxDifficulty : engine = ProofGenerator(difficulty)
    /\ oracle = <<>>
    /\ search = Idle
    /\ held = <<>>

\* lines 29-30
GenerateCall(data, max_attempts) ==
    /\ search = Idle
    /\ search' = [op |-> "generate_proof", data |-> data,
                  max_attempts |-> max_attempts, previous_proof |-> None,
                  nonce |-> 0, start_time |-> time_time, tried |-> <<>>,
                  made |-> <<>>]
    /\ UNCHANGED <<clock, result, merkle, cache_vars, ledger_vars, engine, oracle, held>>

\* lines 71-72
FindNextCall(i, data) ==
    /\ search = Idle
    /\ i \in 1..Len(held)
    /\ search' = [op |-> "find_next_proof", data |-> data,
                  max_attempts |-> NextProofLimit,
                  previous_proof |-> held[i].proof,
                  nonce |-> 0, start_time |-> time_time, tried |-> <<>>,
                  made |-> <<>>]
    /\ UNCHANGED <<clock, result, merkle, cache_vars, ledger_vars, engine, oracle, held>>

\* a Proof object with the reading of the clock at the time it was built
Made(proof) == [proof |-> proof, at |-> time_time]

\* what a pass of either loop leaves behind; made are the candidates it built
SearchAfter(step, made) ==
    LET tried == IF step.hashed THEN Append(search.tried, search.nonce)
                 ELSE search.tried
    IN  IF step.done
        THEN /\ search' = Idle
             /\ result' = [op |-> search.op,
                           arg |-> [data |-> search.data,
                                    max_attempts |-> search.max_attempts,
                                    previous_proof |-> search.previous_proof],
                           ret |-> step.ret, tried |-> tried,
                           start_time |-> search.start_time,
                           made |-> search.made \o made]
             /\ held' = IF step.ret = None THEN held
                        ELSE Append(held, Held(step.ret, search.op))
        ELSE /\ search' = [search EXCEPT !.nonce = step.nonce, !.tried = tried,
                                          !.made = @ \o made]
             /\ UNCHANGED <<result, held>>

GenerateStep ==
    /\ search.op = "generate_proof"
    /\ \E orc \in (IF search.nonce < search.max_attempts
                    THEN Hashed(oracle, engine,
                                hash_input(search.data, search.nonce))
                    ELSE {oracle}) :
          /\ InBudget(orc)
          /\ oracle' = orc
          /\ SearchAfter(generate_proof_step(orc, engine, search), <<>>)
    /\ UNCHANGED <<clock, merkle, cache_vars, ledger_vars, engine>>

FindNextStep ==
    /\ search.op = "find_next_proof"
    /\ \E o1 \in Hashed(oracle, engine, hash_input(search.data, search.nonce)) :
          \E orc \in VerifyChainReads(o1, engine, search.previous_proof,
                                       find_next_candidate(o1, search)) :
             /\ InBudget(orc)
             /\ oracle' = orc
             /\ SearchAfter(find_next_proof_step(orc, engine, search),
                            <<Made(find_next_candidate(orc, search))>>)
    /\ UNCHANGED <<clock, merkle, cache_vars, ledger_vars, engine>>

\* the caller builds a Proof from _hash(data, nonce) (lines 10-15, 23-25)
MakeProof(data, nonce, timestamp) ==
    /\ search = Idle
    /\ \E orc \in Hashed(oracle, engine, hash_input(data, nonce)) :
          /\ InBudget(orc)
          /\ oracle' = orc
          /\ held' = Append(held, Held(Proof(data, nonce, _hash(orc, data, nonce),
                                             timestamp), "caller"))
    /\ UNCHANGED <<clock, result, merkle, cache_vars, ledger_vars, engine, search>>

\* Proof is a plain dataclass: the caller assigns to a field of a proof
ForgeValues(proof, field) ==
    CASE field = "hash" ->
             { FlipHashBit(proof.hash, byte, k) :
                   byte \in {1, DigestSize}, k \in {0, 7} }
      [] field = "nonce" -> { FlipBit(proof.nonce, k) : k \in 0..1 }
      [] field = "timestamp" -> (0..MaxSeconds) \ {proof.timestamp}
      [] field = "data" -> PowData \ {proof.data}

ProofFields == {"data", "nonce", "hash", "timestamp"}

RECURSIVE SumChanged(_, _)
SumChanged(hs, k) ==
    IF k = 0 THEN 0 ELSE Len(hs[k].changed) + SumChanged(hs, k - 1)

Forged == SumChanged(held, Len(held))

Forge(i, field, value) ==
    /\ search = Idle
    /\ i \in 1..Len(held)
    /\ Forged < MaxForge
    /\ value \in ForgeValues(held[i].proof, field)
    /\ held' = [held EXCEPT ![i].proof[field] = value,
                            ![i].changed = Append(@, field)]
    /\ UNCHANGED <<clock, result, merkle, cache_vars, ledger_vars, engine, oracle, search>>

ForgeIn(indices, fields) ==
    \E i \in indices \cap (1..Len(held)), field \in fields :
        \E value \in ForgeValues(held[i].proof, field) : Forge(i, field, value)

VerifyProofCall(i) ==
    /\ search = Idle
    /\ i \in 1..Len(held)
    /\ \E orc \in VerifyProofReads(oracle, engine, held[i].proof) :
          /\ InBudget(orc)
          /\ oracle' = orc
          /\ result' = IF verify_proof_raises(held[i].proof)
                       THEN [op |-> "verify_proof", arg |-> <<held[i]>>,
                             raised |-> "struct.error"]
                       ELSE [op |-> "verify_proof", arg |-> <<held[i]>>,
                             ret |-> verify_proof(orc, engine, held[i].proof)]
    /\ UNCHANGED <<clock, merkle, cache_vars, ledger_vars, engine, search, held>>

VerifyChainCall(i, j) ==
    /\ search = Idle
    /\ i \in 1..Len(held)
    /\ j \in 1..Len(held)
    /\ \E orc \in VerifyChainReads(oracle, engine, held[i].proof, held[j].proof) :
          /\ InBudget(orc)
          /\ oracle' = orc
          /\ result' = IF verify_chain_raises(orc, engine, held[i].proof,
                                              held[j].proof)
                       THEN [op |-> "verify_chain", arg |-> <<held[i], held[j]>>,
                             raised |-> "struct.error"]
                       ELSE [op |-> "verify_chain", arg |-> <<held[i], held[j]>>,
                             ret |-> ProofGenerator_verify_chain(
                                         orc, engine, held[i].proof,
                                         held[j].proof)]
    /\ UNCHANGED <<clock, merkle, cache_vars, ledger_vars, engine, search, held>>

\* the wall clock shows another second, a later or an earlier one
PowTick ==
    /\ \E second \in (0..MaxSeconds) \ {time_time} :
          clock' = second * TicksPerSecond
    /\ UNCHANGED <<result, merkle, cache_vars, ledger_vars, proof_vars>>

\* One proof: it is generated or built, changed, and verified.
NextPow ==
    \/ \E data \in PowData, max_attempts \in (-1)..MaxAttempts :
          oracle = <<>> /\ GenerateCall(data, max_attempts)
    \/ GenerateStep
    \/ \E data \in PowData, nonce \in 0..1, timestamp \in 0..MaxSeconds :
          oracle = <<>> /\ MakeProof(data, nonce, timestamp)
    \/ ForgeIn({1}, ProofFields)
    \/ VerifyProofCall(1)
    \/ PowTick

SpecPow == InitPow /\ [][NextPow]_vars

\* Two proofs: the second is generated, built or searched after the first.
NextChain ==
    \/ \E data \in PowData :
          /\ Len(held) < MaxHeld
          /\ held = <<>> => oracle = <<>>
          /\ GenerateCall(data, MaxAttempts)
    \/ GenerateStep
    \/ \E i \in 1..MaxHeld, data \in PowData :
          Len(held) < MaxHeld /\ FindNextCall(i, data)
    \/ FindNextStep
    \/ ForgeIn({1}, {"hash"})
    \/ \E i \in 1..MaxHeld : VerifyProofCall(i)
    \/ \E i, j \in 1..MaxHeld : i # j /\ VerifyChainCall(i, j)
    \/ search = Idle /\ PowTick

SpecChain == InitPow /\ [][NextChain]_vars

-----------------------------------------------------------------------------
(* Shorthands of the claims about the engine *)

Generators == {"generate_proof", "find_next_proof"}

\* the digest the oracle holds for the proof's data and nonce
Recomputes(p) == oracle[hash_input(p.data, p.nonce)]

HashMatches(p) == Recomputes(p) = p.hash

\* a digest is below target(d) when its first d bytes are zero and the rest
\* is not all 0xFF
BelowTarget(h, d) ==
    /\ \A k \in 1..d : h[k] = 0
    /\ \E k \in (d + 1)..Len(h) : h[k] # ByteMax

-----------------------------------------------------------------------------
(* C14: every Proof that generate_proof or find_next_proof returns on an    *)
(* engine of difficulty d passes verify_proof on that engine: its hash is  *)
(* the digest of its data and nonce, is below target, and its first d      *)
(* bytes are zero.                                                         *)

C14_ReturnedProofVerifies ==
    /\ (result.op \in Generators /\ result.ret # None) =>
          /\ hash_input(result.ret.data, result.ret.nonce) \in DOMAIN oracle
          /\ HashMatches(result.ret)
          /\ BytesLess(result.ret.hash, engine.target)
          /\ \A k \in 1..engine.difficulty : result.ret.hash[k] = 0
          /\ verify_proof(oracle, engine, result.ret)
    /\ (/\ result.op = "verify_proof"
        /\ result.arg[1].by \in Generators
        /\ result.arg[1].changed = <<>>) => result.ret = TRUE

C14_Witness ==
    /\ result.op = "verify_proof"
    /\ result.arg[1].by = "find_next_proof"
    /\ result.arg[1].changed = <<>>
    /\ result.ret = TRUE
    /\ engine.difficulty = 1
    /\ result.arg[1].proof.hash[1] = 0
    /\ \E i \in 1..Len(held) : held[i].by = "generate_proof"

-----------------------------------------------------------------------------
(* C15: when one bit of the hash or one bit of the nonce of a Proof that    *)
(* generate_proof returned is inverted, verify_proof returns False.        *)

C15_ForgedProofRejected ==
    (/\ result.op = "verify_proof"
     /\ result.arg[1].by = "generate_proof"
     /\ result.arg[1].changed \in { <<"hash">>, <<"nonce">> }) =>
        result.ret = FALSE

C15_Witness ==
    /\ result.op = "verify_proof"
    /\ result.arg[1].by = "generate_proof"
    /\ result.arg[1].changed = <<"nonce">>
    /\ BytesLess(result.arg[1].proof.hash, engine.target)
    /\ result.ret = FALSE

-----------------------------------------------------------------------------
(* C16: generate_proof(data, max_attempts) hashes the nonces 0, 1, 2, ...   *)
(* in this order and none twice or not at all; it returns the Proof of     *)
(* the least nonce below max_attempts whose digest is below target, and    *)
(* None when there is none (always so for max_attempts <= 0); it hashes no *)
(* nonce >= max_attempts and at most max_attempts nonces.                  *)

Attempts(max_attempts) == IF max_attempts > 0 THEN max_attempts ELSE 0

Qualifies(data, n) ==
    BelowTarget(oracle[hash_input(data, n)], engine.difficulty)

C16_Search ==
    /\ search.op = "generate_proof" =>
          /\ search.tried = [k \in 1..search.nonce |-> k - 1]
          /\ search.nonce <= Attempts(search.max_attempts)
    /\ result.op = "generate_proof" =>
          LET data == result.arg.data
              max_attempts == result.arg.max_attempts
              tried == result.tried
          IN  /\ tried = [k \in 1..Len(tried) |-> k - 1]
              /\ Len(tried) <= Attempts(max_attempts)
              /\ \A k \in 1..Len(tried) : tried[k] < max_attempts
              /\ result.ret # None =>
                    /\ Len(tried) >= 1
                    /\ result.ret.nonce = tried[Len(tried)]
                    /\ result.ret.data = data
                    /\ Qualifies(data, result.ret.nonce)
                    /\ \A n \in 0..(result.ret.nonce - 1) : ~Qualifies(data, n)
              /\ result.ret = None =>
                    /\ Len(tried) = Attempts(max_attempts)
                    /\ \A n \in 0..(max_attempts - 1) : ~Qualifies(data, n)

C16_Witness ==
    /\ result.op = "generate_proof"
    /\ result.arg.max_attempts = 2
    /\ result.tried = <<0, 1>>
    /\ result.ret # None
    /\ result.ret.nonce = 1
    /\ engine.difficulty = 1

-----------------------------------------------------------------------------
(* C17: on an engine of difficulty 0, generate_proof(data, max_attempts)    *)
(* with max_attempts >= 1 returns a Proof with nonce 0, whatever the data  *)
(* and whatever the 32 bytes of the digest of data and nonce 0.            *)

C17_DifficultyZero ==
    (/\ result.op = "generate_proof"
     /\ engine.difficulty = 0
     /\ result.arg.max_attempts >= 1) =>
        /\ result.ret # None
        /\ result.ret.nonce = 0

-----------------------------------------------------------------------------
(* C18: verify_proof(p) returns True exactly when the digest of p.data and  *)
(* p.nonce equals p.hash and is below target; one of the two alone is not  *)
(* enough, and p.timestamp has no part in the result.                      *)

C18_VerifyProof ==
    result.op = "verify_proof" =>
        LET p == result.arg[1].proof
        IN  /\ result.ret =
                  (HashMatches(p) /\ BelowTarget(Recomputes(p), engine.difficulty))
            /\ \A t \in 0..MaxSeconds :
                  verify_proof(oracle, engine, [p EXCEPT !.timestamp = t])
                      = result.ret

C18_Witness ==
    /\ result.op = "verify_proof"
    /\ HashMatches(result.arg[1].proof)
    /\ ~BelowTarget(Recomputes(result.arg[1].proof), engine.difficulty)
    /\ result.ret = FALSE

-----------------------------------------------------------------------------
(* C19: verify_chain(a, b) returns False whenever a.timestamp >=            *)
(* b.timestamp, equal timestamps included, also when both proofs pass      *)
(* verify_proof and the chain hash is below the chain target.              *)

ChainHashBelow(a, b) ==
    BytesLess(oracle[a.hash \o b.hash], chain_target(engine.difficulty))

C19_StampsOutOfOrder ==
    (/\ result.op = "verify_chain"
     /\ result.arg[1].proof.timestamp >= result.arg[2].proof.timestamp) =>
        result.ret = FALSE

C19_Witness ==
    /\ result.op = "verify_chain"
    /\ result.arg[1].proof.timestamp = result.arg[2].proof.timestamp
    /\ result.arg[1].proof # result.arg[2].proof
    /\ verify_proof(oracle, engine, result.arg[1].proof)
    /\ verify_proof(oracle, engine, result.arg[2].proof)
    /\ ChainHashBelow(result.arg[1].proof, result.arg[2].proof)
    /\ result.ret = FALSE

-----------------------------------------------------------------------------
(* C20: verify_chain(a, b) returns True exactly when a.timestamp <          *)
(* b.timestamp, both proofs pass verify_proof, and the digest of a.hash    *)
(* followed by b.hash is below the chain target; otherwise it returns      *)
(* False, whichever condition fails.                                       *)

ProofValid(p) == HashMatches(p) /\ BelowTarget(Recomputes(p), engine.difficulty)

C20_VerifyChain ==
    result.op = "verify_chain" =>
        LET a == result.arg[1].proof
            b == result.arg[2].proof
        IN  /\ result.ret \in BOOLEAN
            /\ result.ret = (/\ a.timestamp < b.timestamp
                             /\ ProofValid(a)
                             /\ ProofValid(b)
                             /\ ChainHashBelow(a, b))

C20_Witness ==
    /\ result.op = "verify_chain"
    /\ result.ret = TRUE
    /\ result.arg[1].proof.timestamp < result.arg[2].proof.timestamp
    /\ result.arg[1].by = "generate_proof"
    /\ result.arg[2].by = "generate_proof"
    /\ engine.difficulty = 1

-----------------------------------------------------------------------------
(* The two comparisons of the engine, "hash_result < self.target" (lines    *)
(* 36, 51) and "chain_hash < chain_target" (line 67), on the same digest,   *)
(* for every difficulty 0..32.  The comparisons are pure: the initial       *)
(* states range over the difficulty and the digest.                        *)

\* 32-byte values at and next to the targets: z zero bytes followed by
\* bytes b, and target(z) with its last byte lowered by one
TargetDigests ==
    { ByteRun(0, z) \o ByteRun(b, DigestSize - z) :
          z \in 0..DigestSize, b \in {1, ByteMax - 1, ByteMax} }
    \cup { ByteRun(0, z) \o ByteRun(ByteMax, DigestSize - 1 - z) \o <<ByteMax - 1>> :
             z \in 0..(DigestSize - 1) }

InitTargets ==
    /\ blocks = <<>>
    /\ clock = 0
    /\ \E digest \in TargetDigests :
          result = [op |-> "init", arg |-> digest, ret |-> None]
    /\ tampered = <<>>
    /\ pc = [t \in Threads |-> "idle"]
    /\ frame = [t \in Threads |-> [op |-> "none"]]
    /\ merkle = [pc |-> "idle"]
    /\ lru = None
    /\ touched = <<>>
    /\ \E difficulty \in 0..DigestSize : engine = ProofGenerator(difficulty)
    /\ oracle = <<>>
    /\ search = Idle
    /\ held = <<>>

CompareTargets ==
    /\ result.op = "init"
    /\ result' = [op |-> "compare", arg |-> result.arg,
                  ret |-> [target |-> BytesLess(result.arg, engine.target),
                           chain |-> BytesLess(result.arg,
                                               chain_target(engine.difficulty))]]
    /\ UNCHANGED <<clock, merkle, cache_vars, ledger_vars, proof_vars>>

NextTargets == CompareTargets

SpecTargets == InitTargets /\ [][NextTargets]_vars

-----------------------------------------------------------------------------
(* C21: for every difficulty d in 0..32 the chain target is not stricter    *)
(* than the target of a single proof: every 32-byte digest below target is *)
(* below the chain target, which asks for d - 1 zero bytes in front where  *)
(* target asks for d.                                                      *)

RECURSIVE LeadingZeros(_)
LeadingZeros(bytes) ==
    IF Len(bytes) = 0 \/ bytes[1] # 0 THEN 0 ELSE 1 + LeadingZeros(Tail(bytes))

C21_ChainTargetWider ==
    result.op = "compare" =>
        /\ result.ret.target => result.ret.chain
        /\ LeadingZeros(engine.target) = engine.difficulty
        /\ engine.difficulty >= 1 =>
              LeadingZeros(chain_target(engine.difficulty))
                  = engine.difficulty - 1

C21_Witness ==
    /\ result.op = "compare"
    /\ engine.difficulty = DigestSize - 1
    /\ result.ret.target
    /\ result.ret.chain
    /\ LeadingZeros(result.arg) = DigestSize - 1

-----------------------------------------------------------------------------
(* find_next_proof after a first proof: the first proof is generated on a   *)
(* fresh engine, the searches for its successor follow, and the wall clock *)
(* moves at any time, also while a search runs.                            *)

\* line 69: the signature is (self, previous_proof, data); a call that hands
\* over a third argument raises TypeError before the body runs
FindNextCallWith(i, data, max_attempts) ==
    /\ search = Idle
    /\ i \in 1..Len(held)
    /\ result' = [op |-> "find_next_proof",
                  arg |-> [data |-> data, max_attempts |-> max_attempts,
                           previous_proof |-> held[i].proof],
                  ret |-> Raised("TypeError"), tried |-> <<>>]
    /\ UNCHANGED <<clock, merkle, cache_vars, ledger_vars, proof_vars>>

NextSearch ==
    \/ \E data \in PowData :
          oracle = <<>> /\ GenerateCall(data, MaxAttempts)
    \/ GenerateStep
    \/ \E data \in PowData : Len(held) < MaxHeld /\ FindNextCall(1, data)
    \/ \E data \in PowData, max_attempts \in 0..MaxAttempts :
          Len(held) < MaxHeld /\ FindNextCallWith(1, data, max_attempts)
    \/ FindNextStep
    \/ PowTick

SpecSearch == InitPow /\ [][NextSearch]_vars

-----------------------------------------------------------------------------
(* C22: when find_next_proof(previous_proof, data) returns a Proof c, then  *)
(* c.data is data, verify_chain(previous_proof, c) is True, and c.nonce is *)
(* the least nonce, counted up from 0, whose candidate forms a valid chain *)
(* with previous_proof.                                                    *)

IsProof(ret) == "nonce" \in DOMAIN ret

Candidate(data, nonce, timestamp) ==
    Proof(data, nonce, oracle[hash_input(data, nonce)], timestamp)

ChainValid(a, b) ==
    /\ a.timestamp < b.timestamp
    /\ ProofValid(a)
    /\ ProofValid(b)
    /\ ChainHashBelow(a, b)

C22_FirstChainedCandidate ==
    (result.op = "find_next_proof" /\ IsProof(result.ret)) =>
        LET c == result.ret
            previous_proof == result.arg.previous_proof
        IN  /\ c.data = result.arg.data
            /\ ChainValid(previous_proof, c)
            /\ ProofGenerator_verify_chain(oracle, engine, previous_proof, c)
            /\ result.tried = [k \in 1..(c.nonce + 1) |-> k - 1]
            /\ c = Candidate(c.data, c.nonce, c.timestamp)
            /\ \A n \in 0..(c.nonce - 1) :
                  ~ChainValid(previous_proof,
                              Candidate(c.data, n, c.timestamp))

C22_Witness ==
    /\ result.op = "find_next_proof"
    /\ IsProof(result.ret)
    /\ result.ret.nonce = 1
    /\ result.tried = <<0, 1>>
    /\ result.ret.timestamp > result.arg.previous_proof.timestamp
    /\ engine.difficulty = 1

-----------------------------------------------------------------------------
(* C23: find_next_proof takes the number of attempts from its caller (by    *)
(* default 1000000), ends, and returns None after exactly that many        *)
(* candidates failed, without trying a nonce at or above it.               *)

C23_CallerBudget ==
    result.op = "find_next_proof" =>
        /\ result.ret # Raised("TypeError")
        /\ \A k \in 1..Len(result.tried) :
              result.tried[k] < result.arg.max_attempts
        /\ result.ret = None => Len(result.tried) = result.arg.max_attempts

-----------------------------------------------------------------------------
(* The constructor, called with difficulties inside and outside 0..32.      *)

MaxOutside == 2     \* difficulties range from -MaxOutside to 32 + MaxOutside

InitConstruct ==
    /\ blocks = <<>>
    /\ clock = 0
    /\ \E digest \in TargetDigests :
          result = [op |-> "init", arg |-> digest, ret |-> None]
    /\ tampered = <<>>
    /\ pc = [t \in Threads |-> "idle"]
    /\ frame = [t \in Threads |-> [op |-> "none"]]
    /\ merkle = [pc |-> "idle"]
    /\ lru = None
    /\ touched = <<>>
    /\ engine = None
    /\ oracle = <<>>
    /\ search = Idle
    /\ held = <<>>

\* lines 18-21: the two assignments, nothing else
NewEngine(difficulty) ==
    /\ engine = None
    /\ engine' = ProofGenerator(difficulty)
    /\ UNCHANGED <<clock, result, merkle, cache_vars, ledger_vars, oracle, search, held>>

NextConstruct ==
    \/ \E difficulty \in (-MaxOutside)..(DigestSize + MaxOutside) :
          NewEngine(difficulty)
    \/ engine # None /\ CompareTargets

SpecConstruct == InitConstruct /\ [][NextConstruct]_vars

-----------------------------------------------------------------------------
(* C24: a difficulty that is negative or above 32 is refused when the       *)
(* engine is constructed: no engine exists whose difficulty is outside     *)
(* 0..32 or whose target is not 32 bytes long.                             *)

C24_DifficultyChecked ==
    engine # None =>
        /\ engine.difficulty \in 0..DigestSize
        /\ Len(engine.target) = DigestSize

-----------------------------------------------------------------------------
(* Proofs that did not come from the engine: the caller builds a Proof      *)
(* from bytes and numbers it received, a nonce below zero among them, and  *)
(* hands it to verify_proof and verify_chain.                              *)

ReceivedNonces == {-1, 0}

\* lines 10-15: Proof(data, nonce, hash, timestamp) checks nothing
Deserialize(data, nonce, hash, timestamp) ==
    /\ search = Idle
    /\ held' = Append(held, Held(Proof(data, nonce, hash, timestamp), "caller"))
    /\ UNCHANGED <<clock, result, merkle, cache_vars, ledger_vars, engine, oracle, search>>

NextReceived ==
    \/ \E nonce \in ReceivedNonces, timestamp \in 0..MaxSeconds :
          /\ Len(held) < MaxHeld
          /\ Deserialize(<<120>>, nonce, LowDigest(engine.difficulty, 0),
                         timestamp)
    \/ \E i \in 1..MaxHeld : VerifyProofCall(i)
    \/ \E i, j \in 1..MaxHeld : VerifyChainCall(i, j)

SpecReceived == InitPow /\ [][NextReceived]_vars

-----------------------------------------------------------------------------
(* C25: a failed verification is a return value: verify_proof and           *)
(* verify_chain return a Boolean for every Proof, also for one whose nonce *)
(* is below zero or above 2^64 - 1, and never raise.                       *)

C25_NeverRaises ==
    result.op \in {"verify_proof", "verify_chain"} =>
        /\ "raised" \notin DOMAIN result
        /\ result.ret \in BOOLEAN

-----------------------------------------------------------------------------
(* Several searches on one engine.  Each request thread of Appenders runs   *)
(* one generate_proof call on the shared ProofGenerator, a loop pass at a  *)
(* time, in any interleaving; frame[t] holds the locals of thread t's call *)
(* (nonce, start_time, ...), which are all the call writes to.  The third  *)
(* thread verifies what the searches returned.                             *)

Workers == Appenders

\* line 44, "nonce += 1": nonce is a local of the call
store_nonce_on_engine(frames, t, nonce, tried) ==
    [u \in DOMAIN frames |->
        IF frames[u].op = "generate_proof"
        THEN [frames[u] EXCEPT !.nonce = nonce,
                               !.tried = IF u = t THEN tried ELSE @]
        ELSE frames[u]]

store_nonce(frames, t, nonce, tried) ==
    [frames EXCEPT ![t].nonce = nonce, ![t].tried = tried]

WorkerCall(t, data, max_attempts) ==
    /\ pc[t] = "idle"
    /\ frame[t].op = "none"
    /\ pc' = [pc EXCEPT ![t] = "search"]
    /\ frame' = [frame EXCEPT ![t] =
                    [op |-> "generate_proof", data |-> data,
                     max_attempts |-> max_attempts, previous_proof |-> None,
                     nonce |-> 0, start_time |-> time_time, tried |-> <<>>]]
    /\ UNCHANGED <<blocks, clock, result, tampered, merkle, cache_vars, proof_vars>>

WorkerStep(t) ==
    /\ pc[t] = "search"
    /\ \E orc \in (IF frame[t].nonce < frame[t].max_attempts
                   THEN Hashed(oracle, engine,
                               hash_input(frame[t].data, frame[t].nonce))
                   ELSE {oracle}) :
          LET step == generate_proof_step(orc, engine, frame[t])
              tried == IF step.hashed
                       THEN Append(frame[t].tried, frame[t].nonce)
                       ELSE frame[t].tried
          IN  /\ InBudget(orc)
              /\ oracle' = orc
              /\ IF step.done
                 THEN /\ pc' = [pc EXCEPT ![t] = "done"]
                      /\ frame' = [frame EXCEPT ![t] =
                                      [op |-> "returned", call |-> frame[t],
                                       ret |-> step.ret, tried |-> tried]]
                 ELSE /\ frame' = store_nonce(frame, t, step.nonce, tried)
                      /\ UNCHANGED pc
    /\ UNCHANGED <<blocks, clock, result, tampered, merkle, cache_vars, engine, search, held>>

\* the third thread calls verify_proof on a proof a search returned
WorkerVerify(t) ==
    /\ pc[t] = "done"
    /\ frame[t].ret # None
    /\ result' = [op |-> "verify_proof", arg |-> <<Held(frame[t].ret,
                                                        "generate_proof")>>,
                  ret |-> verify_proof(oracle, engine, frame[t].ret)]
    /\ UNCHANGED <<blocks, clock, tampered, pc, frame, merkle, cache_vars, proof_vars>>

NextParallel ==
    \/ \E t \in Workers, data \in PowData, max_attempts \in 0..MaxAttempts :
          WorkerCall(t, data, max_attempts)
    \/ \E t \in Workers : WorkerStep(t)
    \/ \E t \in Workers : WorkerVerify(t)

SpecParallel == InitPow /\ [][NextParallel]_vars

-----------------------------------------------------------------------------
(* C26: the engine keeps no state besides difficulty and target: no call    *)
(* changes either, and in every interleaving of two searches on the same   *)
(* engine each search returns the nonce and hash it returns when it runs   *)
(* alone.                                                                  *)

\* generate_proof run from its first line to its return, nothing in between
RECURSIVE run_alone(_, _, _)
run_alone(orc, self, s) ==
    LET step == generate_proof_step(orc, self, s)
    IN  IF step.done THEN step.ret
        ELSE run_alone(orc, self, [s EXCEPT !.nonce = step.nonce])

FirstLine(call) == [call EXCEPT !.nonce = 0, !.tried = <<>>]

C26_AsAlone ==
    \A t \in Workers :
        pc[t] = "done" =>
            /\ frame[t].tried = [k \in 1..Len(frame[t].tried) |-> k - 1]
            /\ frame[t].ret = None =>
                  Len(frame[t].tried) = Attempts(frame[t].call.max_attempts)
            /\ frame[t].ret = run_alone(oracle, engine, FirstLine(frame[t].call))

C26_EngineKept == engine' = engine

-----------------------------------------------------------------------------
(* A search next to the ledger.  Thread Searcher runs generate_proof a loop *)
(* pass at a time while the other threads of the process call the ledger,  *)
(* which shares nothing with the engine.  The loop of lines 32-44 leaves   *)
(* only by "return Proof" (line 37) and by "return None" (line 46).        *)

Searcher == 1

NextWorker ==
    \/ \E data \in PowData, max_attempts \in 0..MaxAttempts :
          WorkerCall(Searcher, data, max_attempts)
    \/ WorkerStep(Searcher)
    \/ \E data \in DataSet : CreateBlock(data)
    \/ VerifyChain

SpecWorker == InitPow /\ [][NextWorker]_vars

-----------------------------------------------------------------------------
(* C27: a search in progress can be abandoned by its caller before its      *)
(* attempt budget is used up, and takes no step afterwards; the ledger's   *)
(* operations stay enabled while the search runs.                          *)

Searching(t) == pc[t] = "search" /\ frame[t].nonce < frame[t].max_attempts

\* a step that ends the search of t with neither a proof nor a used-up budget
Abandons(t) ==
    /\ pc[t] = "search"
    /\ pc'[t] # "search"
    /\ ~ /\ pc'[t] = "done"
         /\ \/ frame'[t].ret # None
            \/ Len(frame'[t].tried) = Attempts(frame'[t].call.max_attempts)

LedgerEnabled ==
    /\ ENABLED VerifyChain
    /\ Len(blocks) < MaxBlocks => ENABLED (\E data \in DataSet : CreateBlock(data))

C27_Abandonable ==
    Searching(Searcher) =>
        /\ LedgerEnabled
        /\ ENABLED (NextWorker /\ Abandons(Searcher))

-----------------------------------------------------------------------------
(* C28: all candidates of one find_next_proof call carry one timestamp, the *)
(* clock reading taken at the start of the call, wherever the clock stands *)
(* when a candidate is built; the proof returned carries it too.           *)

CandidatesAt(made, start_time) ==
    \A k \in 1..Len(made) : made[k].proof.timestamp = start_time

C28_OneTimestamp ==
    /\ search.op = "find_next_proof" => CandidatesAt(search.made, search.start_time)
    /\ result.op = "find_next_proof" /\ "made" \in DOMAIN result =>
          /\ CandidatesAt(result.made, result.start_time)
          /\ Len(result.made) = Len(result.tried)
          /\ IsProof(result.ret) => result.ret.timestamp = result.start_time

C28_CallStart ==
    search.op # "find_next_proof" /\ search'.op = "find_next_proof" =>
        search'.start_time = time_time

C28_TimestampOnce == [](C28_OneTimestamp) /\ [][C28_CallStart]_vars

C28_Witness ==
    /\ result.op = "find_next_proof"
    /\ IsProof(result.ret)
    /\ Len(result.made) = 2
    /\ result.made[1].at = result.start_time
    /\ result.made[2].at # result.start_time
    /\ result.ret = result.made[2].proof

-----------------------------------------------------------------------------
(* C29: the timestamps of the blocks never decrease along the ledger,       *)
(* blocks[i].timestamp <= blocks[j].timestamp for i < j as Python compares *)
(* strings, whatever the wall clock does between the appends.              *)

\* the code point of a character of a timestamp
ord(c) ==
    CASE c = ChrMinus -> 45
      [] c = ChrDot -> 46
      [] c = ChrT -> 84
      [] OTHER -> 48 + c[1]

\* x <= y for strings: the first differing character decides, a prefix is less
str_le(x, y) ==
    \/ /\ Len(x) <= Len(y)
       /\ \A k \in 1..Len(x) : x[k] = y[k]
    \/ \E k \in 1..Len(x) :
          /\ k <= Len(y)
          /\ \A j \in 1..(k - 1) : x[j] = y[j]
          /\ x[k] # y[k]
          /\ ord(x[k]) < ord(y[k])

C29_TimestampsOrdered ==
    \A i, j \in 1..Len(blocks) :
        i < j => str_le(blocks[i].timestamp, blocks[j].timestamp)

-----------------------------------------------------------------------------
(* The cache (src/app/utils/cache.py, class Cache).  self.cache, an         *)
(* OrderedDict, is the sequence of its items [key, value] in its order;    *)
(* self.timestamps, a dict, is the sequence of its items [key, value] in   *)
(* insertion order.  time.time() is the clock in ticks, ttl is in seconds. *)
(* Every method runs under self.lock, so a call is one step; a call that   *)
(* raises keeps what it changed before the exception.                      *)

MaxSize == 2          \* max_size is drawn from 1..MaxSize
MaxTtl == 1           \* ttl is drawn from 0..MaxTtl seconds
MaxCacheClock == 3    \* time.time() ranges over 0..MaxCacheClock ticks

CacheKeys == {"a", "b", "c"}
\* the cached objects (typing.Any)
Value(n) == [object |-> n]
CacheValues == { Value(1), Value(2) }

Keys(d) == { d[k].key : k \in 1..Len(d) }
Item(key, value) == [key |-> key, value |-> value]

\* d[key], for a key of d
dict_getitem(d, key) == (CHOOSE e \in Range(d) : e.key = key).value

\* d.pop(key), for a key of d
dict_pop(d, key) == SelectSeq(d, LAMBDA e : e.key # key)

\* d[key] = value: a key of d keeps its place, a new key goes to the end
dict_setitem(d, key, value) ==
    IF key \in Keys(d)
    THEN [k \in 1..Len(d) |-> IF d[k].key = key THEN Item(key, value) ELSE d[k]]
    ELSE Append(d, Item(key, value))

\* OrderedDict.move_to_end(key), for a key of d
move_to_end(d, key) == Append(dict_pop(d, key), Item(key, dict_getitem(d, key)))

\* lines 10-16
Cache(max_size, ttl) ==
    [max_size |-> max_size, ttl |-> ttl, cache |-> <<>>, timestamps |-> <<>>]

time_time_float == clock

\* "now - t > self.ttl", with now and t in ticks
Older(self, t, now) == now - t > self.ttl * TicksPerSecond

Returns(self, ret) == [self |-> self, ret |-> ret]

\* lines 18-32 without line 31: the order of self.cache is left as it is
Cache_get_no_move(self, key, now) ==
    IF key \notin Keys(self.cache) THEN Returns(self, None)
    ELSE IF key \notin Keys(self.timestamps) THEN Returns(self, Raised("KeyError"))
    ELSE IF Older(self, dict_getitem(self.timestamps, key), now)
    THEN Returns([self EXCEPT !.cache = dict_pop(@, key),
                              !.timestamps = dict_pop(@, key)], None)
    ELSE Returns(self, dict_getitem(self.cache, key))

\* lines 18-32
Cache_get(self, key, now) ==
    IF key \notin Keys(self.cache) THEN Returns(self, None)
    ELSE IF key \notin Keys(self.timestamps) THEN Returns(self, Raised("KeyError"))
    ELSE IF Older(self, dict_getitem(self.timestamps, key), now)
    THEN Returns([self EXCEPT !.cache = dict_pop(@, key),
                              !.timestamps = dict_pop(@, key)], None)
    ELSE Returns([self EXCEPT !.cache = move_to_end(@, key)],
                 dict_getitem(self.cache, key))

\* lines 34-52; popitem(last=False) raises KeyError on an empty OrderedDict,
\* next(iter(...)) raises StopIteration on an empty dict
Cache_set(self, key, value, now) ==
    IF key \in Keys(self.cache)
    THEN Returns([self EXCEPT
                     !.cache = dict_setitem(move_to_end(@, key), key, value),
                     !.timestamps = dict_setitem(@, key, now)], None)
    ELSE IF Len(self.cache) >= self.max_size
    THEN IF self.cache = <<>> THEN Returns(self, Raised("KeyError"))
         ELSE IF self.timestamps = <<>>
         THEN Returns([self EXCEPT !.cache = Tail(@)], Raised("StopIteration"))
         ELSE Returns([self EXCEPT
                          !.cache = dict_setitem(Tail(@), key, value),
                          !.timestamps = dict_setitem(Tail(@), key, now)], None)
    ELSE Returns([self EXCEPT !.cache = dict_setitem(@, key, value),
                              !.timestamps = dict_setitem(@, key, now)], None)

\* lines 54-58
Cache_clear(self) == Returns([self EXCEPT !.cache = <<>>, !.timestamps = <<>>], None)

\* lines 60-65
Cache_remove(self, key) ==
    IF key \notin Keys(self.cache) THEN Returns(self, None)
    ELSE IF key \notin Keys(self.timestamps)
    THEN Returns([self EXCEPT !.cache = dict_pop(@, key)], Raised("KeyError"))
    ELSE Returns([self EXCEPT !.cache = dict_pop(@, key),
                              !.timestamps = dict_pop(@, key)], None)

\* lines 75-77: "for key in expired_keys"
RECURSIVE cleanup_loop(_, _)
cleanup_loop(self, expired_keys) ==
    IF expired_keys = <<>> THEN Returns(self, None)
    ELSE IF Head(expired_keys) \notin Keys(self.cache)
    THEN Returns(self, Raised("KeyError"))
    ELSE cleanup_loop([self EXCEPT !.cache = dict_pop(@, Head(expired_keys)),
                                   !.timestamps = dict_pop(@, Head(expired_keys))],
                      Tail(expired_keys))

\* lines 67-77
Cache_cleanup_expired(self, now) ==
    LET expired == SelectSeq(self.timestamps, LAMBDA e : Older(self, e.value, now))
    IN  cleanup_loop(self, [k \in 1..Len(expired) |-> expired[k].key])

\* lines 79-81
get_size(self) == Len(self.cache)

InitCache ==
    /\ blocks = <<>>
    /\ clock = 0
    /\ result = [op |-> "init", arg |-> None, ret |-> None]
    /\ tampered = <<>>
    /\ pc = [t \in Threads |-> "idle"]
    /\ frame = [t \in Threads |-> [op |-> "none"]]
    /\ merkle = [pc |-> "idle"]
    /\ engine = None
    /\ oracle = <<>>
    /\ search = [op |-> "none"]
    /\ held = <<>>
    /\ \E max_size \in 1..MaxSize, ttl \in 0..MaxTtl : lru = Cache(max_size, ttl)
    /\ touched = <<>>

\* key becomes the most recently touched
Touch(keys, key) == Append(SelectSeq(keys, LAMBDA k : k # key), key)

\* a completed call of the cache: was is self.cache before the call
CacheCall(op, arg, call, touches) ==
    /\ lru' = call.self
    /\ result' = [op |-> op, arg |-> arg, ret |-> call.ret, was |-> lru.cache]
    /\ touched' = IF touches THEN Touch(touched, arg[1]) ELSE touched
    /\ UNCHANGED <<clock, merkle, ledger_vars, proof_vars>>

CacheGet(key) ==
    LET call == Cache_get(lru, key, time_time_float)
    IN  CacheCall("get", <<key>>, call, call.ret \in CacheValues)

CacheSet(key, value) ==
    LET call == Cache_set(lru, key, value, time_time_float)
    IN  CacheCall("set", <<key, value>>, call, call.ret = None)

CacheRemove(key) == CacheCall("remove", <<key>>, Cache_remove(lru, key), FALSE)

CacheClear == CacheCall("clear", <<>>, Cache_clear(lru), FALSE)

CacheCleanup ==
    CacheCall("cleanup_expired", <<>>,
              Cache_cleanup_expired(lru, time_time_float), FALSE)

CacheSize == CacheCall("get_size", <<>>, Returns(lru, get_size(lru)), FALSE)

\* time passes between the calls
CacheTick ==
    /\ clock < MaxCacheClock
    /\ clock' = clock + 1
    /\ UNCHANGED <<result, merkle, ledger_vars, proof_vars, cache_vars>>

NextCache ==
    \/ \E key \in CacheKeys : CacheGet(key)
    \/ \E key \in CacheKeys, value \in CacheValues : CacheSet(key, value)
    \/ \E key \in CacheKeys : CacheRemove(key)
    \/ CacheClear
    \/ CacheCleanup
    \/ CacheSize
    \/ CacheTick

SpecCache == InitCache /\ [][NextCache]_vars

-----------------------------------------------------------------------------
(* C30: a cache built with max_size >= 1 never holds more than max_size     *)
(* entries, whatever calls are made; and a set that puts a new key into a  *)
(* full cache evicts exactly one entry, the one touched least recently by  *)
(* a set or a successful get, and keeps every other entry.                 *)

InsertedIntoFull ==
    /\ result.op = "set"
    /\ result.ret = None
    /\ result.arg[1] \notin Keys(result.was)
    /\ Len(result.was) >= lru.max_size

\* the entries of a cache, without their order
Entries(d) == Range(d)

\* the key of d touched least recently
LeastRecent(d) ==
    LET first == CHOOSE k \in 1..Len(touched) :
                    /\ touched[k] \in Keys(d)
                    /\ \A j \in 1..(k - 1) : touched[j] \notin Keys(d)
    IN  touched[first]

C30_BoundedLru ==
    /\ lru.max_size >= 1 => get_size(lru) <= lru.max_size
    /\ InsertedIntoFull =>
          LET victim == LeastRecent(result.was)
          IN  /\ Keys(result.was) \subseteq Range(touched)
              /\ Entries(lru.cache) =
                    { e \in Entries(result.was) : e.key # victim }
                        \cup { Item(result.arg[1], result.arg[2]) }
              /\ Cardinality(Entries(result.was) \ Entries(lru.cache)) = 1

\* b was put in after a, a was then read, and c pushed b out
C30_Witness ==
    /\ InsertedIntoFull
    /\ lru.max_size = 2
    /\ result.arg[1] = "c"
    /\ result.was[1].key = "b"
    /\ result.was[2].key = "a"
    /\ Keys(lru.cache) = {"a", "c"}
    /\ lru.timestamps[1].key = "b"

-----------------------------------------------------------------------------
(* C31: get(key) never raises; it returns the value last set for key when   *)
(* the key is still cached (not removed, cleared or evicted since) and no  *)
(* more than ttl seconds have passed since that set, and None otherwise; a *)
(* key found expired is deleted by that get.  The value and the time of    *)
(* the last set of a cached key are what set wrote to the two maps.        *)

IsRaised(ret) == "raised" \in DOMAIN ret

GetStep == clock' = clock /\ result'.op = "get" /\ lru' # None

C31_Get ==
    GetStep =>
        LET key == result'.arg[1]
            cached == key \in Keys(lru.cache)
            fresh == /\ key \in Keys(lru.timestamps)
                     /\ ~Older(lru, dict_getitem(lru.timestamps, key),
                               time_time_float)
        IN  /\ ~IsRaised(result'.ret)
            /\ result'.ret = (IF cached /\ fresh
                              THEN dict_getitem(lru.cache, key) ELSE None)
            /\ cached /\ ~fresh =>
                  /\ key \notin Keys(lru'.cache)
                  /\ key \notin Keys(lru'.timestamps)

C31_GetNeverRaises == [][C31_Get]_vars

-----------------------------------------------------------------------------
(* C34: self.cache and self.timestamps always have the same keys, so that   *)
(* no call of the cache looks up or pops a key the other map lacks (no     *)
(* call raises KeyError or StopIteration).                                 *)

MapOps == {"get", "set", "remove", "clear", "cleanup_expired"}

C34_MapsAgree ==
    /\ Keys(lru.cache) = Keys(lru.timestamps)
    /\ result.op \in MapOps => ~IsRaised(result.ret)

-----------------------------------------------------------------------------
(* The wallet check of the Flask application (src/app/app.py,               *)
(* require_wallet; src/app/blockchain/wallet.py, verify_signature).  A     *)
(* header is None when the request lacks it, else a string: a text (id 0   *)
(* is the empty string, other texts are neither a public key nor base58),  *)
(* the base58 form of a public key, base58 of arbitrary bytes, or base58   *)
(* of the signature of a message by the key pair of a wallet.  Signatures  *)
(* are ideal: pubkey.verify(message, sig) holds exactly for the signature  *)
(* of that message by that key.  Each request thread serves requests;      *)
(* frame[t] is the last request of thread t with its response.             *)

Wallets == {1, 2}
Messages == {1}

Text(id) == [kind |-> "text", id |-> id]
PubkeyStr(wallet) == [kind |-> "pubkey", id |-> wallet]
Base58Str(id) == [kind |-> "base58", id |-> id]
SignatureStr(wallet, message) ==
    [kind |-> "signature", signer |-> wallet, message |-> message]

AddressHeaders ==
    {None, Text(0), Text(1)} \cup { PubkeyStr(w) : w \in Wallets }
SignatureHeaders ==
    {None, Text(0), Text(1), Base58Str(1)}
        \cup { SignatureStr(w, m) : w \in Wallets, m \in Messages }

\* "not x" for a header value
falsy(x) == x = None \/ x = Text(0)

\* PublicKey(public_key) raises unless the string is a public key
PublicKey_raises(public_key) == public_key.kind # "pubkey"

\* base58.b58decode(signature) raises on characters outside the alphabet
b58decode_raises(signature) == signature.kind = "text"

\* pubkey.verify(message, sig_bytes)
PublicKey_verify(pubkey, message, sig) ==
    /\ sig.kind = "signature"
    /\ sig.signer = pubkey.id
    /\ sig.message = message

\* wallet.py lines 41-57; any exception is caught and gives False
verify_signature(public_key, signature, message) ==
    IF PublicKey_raises(public_key) THEN FALSE
    ELSE IF falsy(message) THEN TRUE
    ELSE IF b58decode_raises(signature) THEN FALSE
    ELSE PublicKey_verify(public_key, message, signature)

Response(status, body) == [status |-> status, body |-> body]

\* the wrapped view function f
f_response == Response(200, "handler")

\* app.py lines 34-49: the response, and whether f was awaited
decorated_function(wallet_address, signature) ==
    IF falsy(wallet_address) \/ falsy(signature)
    THEN [response |-> Response(401, "Missing wallet credentials"), ran |-> FALSE]
    ELSE IF ~verify_signature(wallet_address, signature, None)
    THEN [response |-> Response(401, "Invalid signature"), ran |-> FALSE]
    ELSE [response |-> f_response, ran |-> TRUE]

Request(t, wallet_address, signature) ==
    /\ frame' = [frame EXCEPT ![t] =
                    [op |-> "decorated_function",
                     wallet_address |-> wallet_address,
                     signature |-> signature,
                     served |-> decorated_function(wallet_address, signature)]]
    /\ UNCHANGED <<blocks, clock, result, tampered, pc, merkle, cache_vars,
                   proof_vars>>

NextWallet ==
    \E t \in Appenders, wallet_address \in AddressHeaders,
       signature \in SignatureHeaders : Request(t, wallet_address, signature)

SpecWallet == Init /\ [][NextWallet]_vars

-----------------------------------------------------------------------------
(* C32: the handler behind require_wallet runs only for a request whose     *)
(* two headers are present and whose signature is a valid signature by the *)
(* wallet of the address; a well-formed address with any other signature   *)
(* gets 401 and the handler does not run.                                  *)

SignedBy(signature, wallet_address) ==
    \E m \in Messages :
        PublicKey_verify(wallet_address, m, signature)

C32_OnlySigned ==
    \A t \in Appenders :
        frame[t].op = "decorated_function" =>
            /\ frame[t].served.ran =>
                  /\ ~falsy(frame[t].wallet_address)
                  /\ ~falsy(frame[t].signature)
                  /\ SignedBy(frame[t].signature, frame[t].wallet_address)
            /\ ~frame[t].served.ran => frame[t].served.response.status = 401

-----------------------------------------------------------------------------
(* C33: find_next_proof returns a proof only when the second read at the    *)
(* start of the call is later than previous_proof.timestamp; when it is    *)
(* not, every candidate fails the test of line 56 and the call returns     *)
(* None only after it tried every nonce below the limit of line 90.        *)

SearchEnded == result.op = "find_next_proof" /\ "made" \in DOMAIN result

C33_NeedsLaterSecond ==
    SearchEnded =>
        LET previous_proof == result.arg.previous_proof
        IN  /\ IsProof(result.ret) =>
                  result.start_time > previous_proof.timestamp
            /\ result.start_time <= previous_proof.timestamp =>
                  /\ result.ret = None
                  /\ result.tried = [k \in 1..NextProofLimit |-> k - 1]
                  /\ \A k \in 1..Len(result.made) :
                        ~ProofGenerator_verify_chain(oracle, engine, previous_proof,
                                                     result.made[k].proof)

\* the call started in the second in which previous_proof was generated, and
\* its first candidate is a valid proof
C33_Witness ==
    /\ SearchEnded
    /\ result.start_time = result.arg.previous_proof.timestamp
    /\ result.ret = None
    /\ Len(result.tried) = NextProofLimit
    /\ verify_proof(oracle, engine, result.made[1].proof)

-----------------------------------------------------------------------------
(* The spans of a text (src/models/nlp_chain.py, _process_text_spans).  A   *)
(* text is a sequence of characters, of which only being whitespace        *)
(* matters.  The /blocks endpoint passes int(span_length) and int(overlap) *)
(* of the request body on as they are (src/app.py lines 184-193).  Request *)
(* thread SpanThread runs one call, a loop pass at a time; frame holds its *)
(* locals.  The embedding vector of a span is left out.  A call whose     *)
(* list of spans or whose start runs out of the bounds is cut: the code    *)
(* goes on, the model does not follow it.                                  *)

MaxText == 3      \* texts have up to this many characters
MaxArg == 3       \* span_length and overlap are drawn from -1..MaxArg
MaxSpans == 4     \* a call is followed until it holds this many spans
MaxBack == 2      \* and as long as start >= -MaxBack

SpanThread == 1
SpanArgs == (-1)..MaxArg
Texts == UNION { [1..n -> {"x", " "}] : n \in 0..MaxText }

\* text[start:end]
slice_index(n, i) == IF i < 0 THEN (IF i + n < 0 THEN 0 ELSE i + n)
                     ELSE (IF i > n THEN n ELSE i)
slice(text, start, end) ==
    SubSeq(text, slice_index(Len(text), start) + 1, slice_index(Len(text), end))

\* bool(text.strip())
strip_truthy(text) == \E k \in 1..Len(text) : text[k] # " "

min(a, b) == IF a <= b THEN a ELSE b

\* lines 44-77: the NLPMetadata of a span
_process_text(text, start_char) ==
    [text |-> text, start_char |-> start_char, end_char |-> start_char + Len(text)]

\* line 106
next_start(start, span_length, overlap) == start + span_length - overlap

InitSpans ==
    /\ blocks = <<>>
    /\ clock = 0
    /\ result = [op |-> "init", arg |-> None, ret |-> None]
    /\ tampered = <<>>
    /\ pc = [t \in Threads |-> IF t = SpanThread THEN "call" ELSE "idle"]
    /\ \E text \in Texts, span_length \in SpanArgs, overlap \in SpanArgs :
          frame = [t \in Threads |->
                     IF t = SpanThread
                     THEN [op |-> "_process_text_spans", text |-> text,
                           span_length |-> span_length, overlap |-> overlap,
                           start |-> 0, spans |-> <<>>]
                     ELSE [op |-> "none"]]
    /\ merkle = [pc |-> "idle"]
    /\ lru = None
    /\ touched = <<>>
    /\ engine = None
    /\ oracle = <<>>
    /\ search = [op |-> "none"]
    /\ held = <<>>

SpansUnchanged ==
    UNCHANGED <<blocks, clock, result, tampered, merkle, cache_vars, proof_vars>>

\* lines 92-96
SpansCall ==
    LET s == frame[SpanThread]
    IN  /\ pc[SpanThread] = "call"
        /\ IF Len(s.text) <= s.span_length
           THEN /\ pc' = [pc EXCEPT ![SpanThread] = "done"]
                /\ frame' = [frame EXCEPT ![SpanThread].spans =
                                <<_process_text(s.text, 0)>>]
           ELSE /\ pc' = [pc EXCEPT ![SpanThread] = "loop"]
                /\ UNCHANGED frame
        /\ SpansUnchanged

\* line 98: the test of "while start < len(text)"
SpansLoop ==
    /\ pc[SpanThread] = "loop"
    /\ frame[SpanThread].start < Len(frame[SpanThread].text)
    /\ pc' = [pc EXCEPT ![SpanThread] = "body"]
    /\ UNCHANGED frame
    /\ SpansUnchanged

\* a call that holds MaxSpans spans or went back beyond -MaxBack does not
\* return (a returning call makes at most len(text) passes, from start >= 0)
FollowedFurther ==
    /\ Len(frame[SpanThread].spans) < MaxSpans
    /\ frame[SpanThread].start >= -MaxBack

\* lines 99-106: the body of the loop
SpansBody ==
    LET s == frame[SpanThread]
        end == min(s.start + s.span_length, Len(s.text))
        span_text == slice(s.text, s.start, end)
    IN  /\ pc[SpanThread] = "body"
        /\ FollowedFurther
        /\ frame' = [frame EXCEPT
              ![SpanThread].spans =
                  IF strip_truthy(span_text)
                  THEN Append(@, _process_text(span_text, s.start)) ELSE @,
              ![SpanThread].start = next_start(s.start, s.span_length, s.overlap)]
        /\ pc' = [pc EXCEPT ![SpanThread] = "loop"]
        /\ SpansUnchanged

\* the call is followed no further
SpansCut ==
    /\ pc[SpanThread] = "body"
    /\ ~FollowedFurther
    /\ pc' = [pc EXCEPT ![SpanThread] = "cut"]
    /\ UNCHANGED frame
    /\ SpansUnchanged

\* lines 98, 108
SpansReturn ==
    /\ pc[SpanThread] = "loop"
    /\ frame[SpanThread].start >= Len(frame[SpanThread].text)
    /\ pc' = [pc EXCEPT ![SpanThread] = "done"]
    /\ UNCHANGED frame
    /\ SpansUnchanged

NextSpans == SpansCall \/ SpansLoop \/ SpansBody \/ SpansCut \/ SpansReturn

\* the thread keeps running
SpecSpans == InitSpans /\ [][NextSpans]_vars /\ WF_vars(NextSpans)

-----------------------------------------------------------------------------
(* C35: _process_text_spans returns for every text and every integer        *)
(* span_length and overlap, overlap >= span_length included, and every     *)
(* span it returns has start_char <= end_char <= len(text) and at most     *)
(* span_length characters.  Calls that were cut are not judged: what is    *)
(* left to violate the formula is a call that comes back to a state it was *)
(* in.                                                                     *)

SpansReturned == pc[SpanThread] = "done"
SpansFollowed == pc[SpanThread] # "cut"

SpansWithin ==
    LET s == frame[SpanThread]
    IN  \A k \in 1..Len(s.spans) :
            /\ s.spans[k].start_char <= s.spans[k].end_char
            /\ s.spans[k].end_char <= Len(s.text)
            /\ s.spans[k].end_char - s.spans[k].start_char <= s.span_length

C35_SpansTerminate ==
    /\ <>(SpansReturned \/ ~SpansFollowed)
    /\ [](SpansReturned => SpansWithin)

-----------------------------------------------------------------------------
(* The ledger with two adjacent fields of a stored block changed together:  *)
(* the holder of the service moves the characters at the border between    *)
(* timestamp and data from one field to the other.                         *)

\* the two fields after the last n characters of timestamp moved to the front
\* of data (n > 0), or the first -n characters of data to the end of timestamp
Shifted(block, n) ==
    IF n > 0
    THEN [block EXCEPT
             !.timestamp = SubSeq(@, 1, Len(@) - n),
             !.data = SubSeq(block.timestamp, Len(block.timestamp) - n + 1,
                             Len(block.timestamp)) \o @]
    ELSE [block EXCEPT
             !.timestamp = @ \o SubSeq(block.data, 1, -n),
             !.data = SubSeq(@, 1 - n, Len(@))]

Shifts(block) == ((-Len(block.data))..Len(block.timestamp)) \ {0}

\* self.blocks[k - 1].timestamp, self.blocks[k - 1].data = ..., ...
TamperShift(k, n) ==
    /\ Len(tampered) < MaxTamper
    /\ k \in 1..Len(blocks)
    /\ n \in Shifts(blocks[k])
    /\ blocks' = [blocks EXCEPT ![k] = Shifted(@, n)]
    /\ tampered' = Append(tampered, [block |-> k - 1, field |-> "timestamp, data",
                                     was |-> blocks[k]])
    /\ result' = [op |-> "tamper", arg |-> k - 1, ret |-> None]
    /\ UNCHANGED <<clock, pc, frame, merkle, cache_vars, proof_vars>>

NextShift ==
    \/ \E data \in DataSet : CreateBlock(data)
    \/ VerifyChain
    \/ \E k \in 1..MaxBlocks, n \in (-2)..2 : TamperShift(k, n)

SpecShift == Init /\ [][NextShift]_vars

-----------------------------------------------------------------------------
(* C36: the hashed string determines index, timestamp, data and             *)
(* previous_hash: a stored block whose fields were changed hashes to       *)
(* another value than before, so that verify_chain, recomputing the hash,  *)
(* reports a block after the first whose timestamp and data were changed   *)
(* together.                                                               *)

FieldTuple(b) == <<b.index, b.timestamp, b.data, b.previous_hash>>
HashOf(b) == calculate_hash(b.index, b.timestamp, b.data, b.previous_hash)

C36_FieldsDetermined ==
    \A k \in 1..Len(tampered) :
        LET now == blocks[tampered[k].block + 1]
            was == tampered[k].was
        IN  /\ FieldTuple(now) # FieldTuple(was) => HashOf(now) # HashOf(was)
            /\ (/\ tampered[k].block >= 1
                /\ result.op = "verify_chain") => ~result.ret.valid

====
